---- MODULE Spec2Model ----
(***************************************************************************)
(* Model of GmailClient (src/src/gmail_downloader/gmail_client.py): the    *)
(* request gate _make_api_request with its semaphore, daily quota counter  *)
(* and statistics, the backoff.on_exception retrier that decorates it, the *)
(* public data operations that call it, and the two async generators       *)
(* search_messages and watch_for_new_messages; and of its synchronous      *)
(* functions: _find_attachments with the two parsers that call it, and     *)
(* build_search_query with is_valid_email, extract_email_address and       *)
(* parse_date of utils.py, strings being sequences of characters; of       *)
(* sanitize_filename of utils.py, which names the attachments; and of      *)
(* _apply_yaml_to_config (src/legacy/src/gmail_downloader/config.py),      *)
(* which builds the configuration the client reads.                        *)
(*                                                                         *)
(* The client runs on one asyncio event loop: the code between two awaits  *)
(* is one atomic step.  The suspension points of a gated call are the      *)
(* semaphore acquisition, the two `await asyncio.to_thread(request_func)`  *)
(* and the retrier's sleep; authenticate() has no await inside and runs    *)
(* within the step that handles the 401.                                   *)
(***************************************************************************)
EXTENDS Integers, Sequences, FiniteSets, TLC

\* ---- bounds of the model ----
NumCallers == 2
MaxOps == 2
DailyLimit == 10
MaxNow == 1
MaxHitsConcurrent == 1
MaxRateLimitHits == 5
MaxPageLen == 2    \* messages a page of a plain search carries
MaxPages == 2      \* pages the provider serves to a plain search
MaxPolls == 2      \* poll cycles of a watch session
MaxSessions == 1   \* generator runs (searches, watch sessions) of the consumer
MaxParts == 4      \* parts of a message payload, the root included
MaxSenders == 2    \* senders of a search filter
MaxTerms == 1      \* extensions, subject keywords, excluded keywords of a filter
MaxYamlKeys == 2   \* keys a YAML configuration file sets
MaxNameLen == 3    \* characters of a short filename
MaxAffixLen == 2   \* characters before and after the run of a long filename

\* ---- program constants ----
max_tries == 5
max_time == 300
max_length == 200
Day == 1
DefaultRetryAfter == 60
PerSecondDivisor == 60
PageLimit == 500
WatchMaxResults == 100

Callers == 1..NumCallers

\* requests_per_minute values the configuration may hold (validate: > 0)
RpmChoices == {30, 60, 120}

VARIABLES
    requests_per_minute, \* self.config.gmail.requests_per_minute
    service,             \* TRUE iff self.service and self.credentials are set
    semaphore,           \* value of self._semaphore
    quota_used,          \* self._quota_used
    quota_reset_time,    \* self._quota_reset_time
    now,                 \* datetime.now(), in ticks
    stats,               \* self.stats
    pc,                  \* position of each caller's coroutine
    op,                  \* public operation each caller runs
    tries,               \* backoff's tries counter of the caller's operation
    attemptCalls,        \* request_func invocations in the current gate call
    reauths,             \* authenticate() calls in the current gate call
    outcome,             \* what the decorated _make_api_request returned/raised
    response,            \* what request_func last did in the current gate call
    retry_after,         \* retry_after of the GmailRateLimitError being handled
    surfaced,            \* what the public operation returned/raised
    opsStarted,          \* operations started so far (bounds the run)
    delay,               \* seconds the retrier sleeps before the next attempt
    upstreamCalls,       \* request_func invocations of the decorated call so far
    rateLimited,         \* rate-limit responses the decorated call received so far
    \* search_messages, iterated by the coroutine Searcher
    spc,                 \* position of the generator
    max_results,         \* its argument max_results
    results_returned,    \* its local results_returned
    page_token,          \* TRUE iff its local page_token is a non-empty token
    maxResults,          \* request_params["maxResults"] of its last page request
    pages,               \* page requests it has issued
    yielded,             \* the message IDs it has yielded
    search_raised,       \* the exception it raised to its consumer
    \* watch_for_new_messages, iterated by the coroutine Searcher
    wpc,                 \* position of the generator
    seen_message_ids,    \* its local seen_message_ids
    new_message_ids,     \* sorted(new_message_ids) still to be yielded
    emitted,             \* the message IDs it has yielded in this session
    polls,               \* poll cycles it has started
    watch_raised,        \* the exception it raised to its consumer
    earlier_results,     \* history: the IDs the baseline search and the
                         \* successful polls before the current cycle returned
    token_refreshed,     \* TRUE iff the authenticate() of the 401 branch of the
                         \* caller's gate call obtained a new token
    \* the synchronous functions, applied to one argument at a time
    called,              \* the function applied last
    payload,             \* message_data["payload"] of the message parsed last
    message,             \* has_attachments and attachment_count of the
                         \* EmailMessage get_message_details built from it
    attachments,         \* the list get_message_attachments built from it
    query_args,          \* the arguments of the last build_search_query
    query,               \* the string it returned
    filename,            \* the argument of the last sanitize_filename
    clean_name,          \* the string it returned
    yaml_data,           \* the argument yaml_data of _apply_yaml_to_config
    config               \* the AppConfig it is applied to and returns

\* the retrier's sleep and the counts of the current decorated call
callVars == << delay, upstreamCalls, rateLimited >>

searchVars == << spc, max_results, results_returned, page_token, maxResults,
                 pages, yielded, search_raised >>

watchVars == << wpc, seen_message_ids, new_message_ids, emitted, polls,
                watch_raised, earlier_results >>

pureVars == << called, payload, message, attachments, query_args, query,
              filename, clean_name, yaml_data, config >>

vars == << requests_per_minute, service, semaphore, quota_used,
           quota_reset_time, now, stats, pc, op, tries,
           attemptCalls, reauths, response, outcome, retry_after, surfaced,
           opsStarted, callVars, searchVars, watchVars, token_refreshed,
           pureVars >>

\* ---- public operations and their quota cost ----
Ops == {"search", "details_metadata", "details_full", "attachments", "download"}

QuotaCost(o) ==
    CASE o = "search" -> 1
      [] o = "details_metadata" -> 1
      [] o = "details_full" -> 5
      [] o = "attachments" -> 5
      [] o = "download" -> 10

\* ---- upstream responses ----
\* what request_func does: it returns a result, raises an HttpError (status,
\* reason of error_details[0], retry-after header) or raises another exception
Response(k, st, rs, h) == [kind |-> k, status |-> st, reason |-> rs, header |-> h]

NoResponse == Response("none", 0, "", "absent")

ErrorResponses ==
    { Response("HttpError", 429, "", h) : h \in {"absent", "2", "Wed"} }
    \cup { Response("HttpError", 403, rs, "absent") :
              rs \in {"rateLimitExceeded", "userRateLimitExceeded",
                      "quotaExceeded", ""} }
    \cup { Response("HttpError", 429, "quotaExceeded", "2"),
           Response("HttpError", 401, "", "absent"),
           Response("HttpError", 500, "", "absent"),
           Response("Exception", 0, "", "absent") }

Responses == { Response("result", 200, "", "absent") } \cup ErrorResponses

\* int(e.resp.get("retry-after", 60)); -1 stands for the ValueError int() raises
ParseRetryAfter(h) ==
    CASE h = "absent" -> DefaultRetryAfter
      [] h = "2" -> 2
      [] OTHER -> -1

\* the except HttpError branch chosen for a failed first invocation
Classify(r) ==
    IF r.status = 429 \/ r.reason \in {"rateLimitExceeded", "userRateLimitExceeded"}
    THEN IF ParseRetryAfter(r.header) < 0 THEN "ValueError" ELSE "GmailRateLimitError"
    ELSE IF r.status = 403 /\ r.reason = "quotaExceeded"
    THEN "GmailQuotaExceededError"
    ELSE IF r.status = 401
    THEN "reauth"
    ELSE "GmailError"

\* a retrier that backs off on the base class GmailError as well
Retryable_GmailError(exc) ==
    exc \in {"HttpError", "GmailRateLimitError", "GmailQuotaExceededError",
             "GmailAuthenticationError", "GmailError"}

\* the exception tuple of backoff.on_exception
Retryable(exc) == exc \in {"HttpError", "GmailRateLimitError"}

\* except Exception handlers of the public operations
Surface(o, exc) ==
    IF exc \in {"ok", "CancelledError"} THEN exc
    ELSE IF o = "search" THEN exc
    ELSE IF o \in {"details_metadata", "details_full"} THEN "GmailError"
    ELSE "GmailAttachmentError"

\* a client whose operations do not check the credential
is_authenticated_Unchecked == TRUE

is_authenticated == service

\* Python's None, for the optional integer max_results
None == -1

\* the values of the variables of the synchronous functions before any call
NoPayload == [attachmentId |-> "", filename |-> "", parts |-> << >>]
NoMessage == [has_attachments |-> FALSE, attachment_count |-> 0]
NoArgs == [senders |-> << >>, after_date |-> << >>, before_date |-> << >>,
           has_attachment |-> TRUE, extensions |-> << >>,
           subject_keywords |-> << >>, exclude_keywords |-> << >>]
\* the value of config while no AppConfig is built
NoConfig == << >>

\* no filename sanitized and no configuration loaded
NoUtilityCall ==
    /\ filename = << >>
    /\ clean_name = << >>
    /\ yaml_data = {}
    /\ config = NoConfig

\* one of the two generators is between its first and its last step
GeneratorRunning ==
    \/ spc = "requesting"
    \/ wpc \in {"baseline", "sleeping", "polling", "yielding", "suspended",
                "error_sleep"}

\* the quota_units argument of caller p's gate call
quota_units(p) == QuotaCost(op[p])

InFlight == Cardinality({p \in Callers : pc[p] \in {"inflight", "retry_inflight"}})

\* the client after GmailClient(config)
InitClient ==
    /\ requests_per_minute \in RpmChoices
    /\ service = FALSE
    /\ semaphore = requests_per_minute \div PerSecondDivisor
    /\ quota_used = 0
    /\ now = 0
    /\ quota_reset_time = now + Day
    /\ stats = [requests_made |-> 0, quota_units_used |-> 0, rate_limit_hits |-> 0]
    /\ pc = [p \in Callers |-> "idle"]
    /\ op = [p \in Callers |-> "search"]
    /\ tries = [p \in Callers |-> 0]
    /\ attemptCalls = [p \in Callers |-> 0]
    /\ reauths = [p \in Callers |-> 0]
    /\ outcome = [p \in Callers |-> "none"]
    /\ response = [p \in Callers |-> NoResponse]
    /\ retry_after = [p \in Callers |-> 0]
    /\ surfaced = [p \in Callers |-> "none"]
    /\ opsStarted = 0
    /\ delay = [p \in Callers |-> 0]
    /\ upstreamCalls = [p \in Callers |-> 0]
    /\ rateLimited = [p \in Callers |-> 0]
    /\ spc = "idle"
    /\ max_results = None
    /\ results_returned = 0
    /\ page_token = FALSE
    /\ maxResults = 0
    /\ pages = 0
    /\ yielded = << >>
    /\ search_raised = "none"
    /\ wpc = "idle"
    /\ seen_message_ids = {}
    /\ new_message_ids = << >>
    /\ emitted = << >>
    /\ polls = 0
    /\ watch_raised = "none"
    /\ earlier_results = {}
    /\ token_refreshed = [p \in Callers |-> FALSE]

\* the client after construction, none of the synchronous functions applied
Init ==
    /\ InitClient
    /\ called = "none"
    /\ payload = NoPayload
    /\ message = NoMessage
    /\ attachments = << >>
    /\ query_args = NoArgs
    /\ query = << >>
    /\ NoUtilityCall

\* ---- authenticate() ----
AuthOutcomes == {"valid", "refreshed", "flow", "fail"}

\* authenticate() ended with outcome a: it holds a token it did not hold
\* before.  A token file whose credentials are valid is loaded and used as it
\* is ("valid"); credentials.refresh() runs only for loaded credentials that
\* are expired and have a refresh token, the OAuth flow only when no token
\* file was loaded.
NewToken(a) == a \in {"refreshed", "flow"}

\* self.service / self.credentials after authenticate() ended with outcome a
AuthService(a) == IF a = "fail" THEN service ELSE TRUE

\* the caller's first authenticate().  Of self.stats it changes only the
\* counter authentication_refreshes, which no modelled operation reads and
\* which the model leaves out of stats.
Authenticate(a) ==
    /\ ~service
    /\ service' = AuthService(a)
    /\ UNCHANGED << pureVars, token_refreshed, requests_per_minute, semaphore, quota_used, quota_reset_time,
                    now, stats, pc, op, tries, attemptCalls, reauths, response,
                    outcome, retry_after, surfaced, opsStarted, callVars, searchVars, watchVars >>

\* ---- the end of an operation ----
\* the decorated gate call returned or raised exc, and the public operation
\* passes it to its caller through its own except clause
Finish(p, exc) ==
    /\ pc' = [pc EXCEPT ![p] = "done"]
    /\ outcome' = [outcome EXCEPT ![p] = exc]
    /\ surfaced' = [surfaced EXCEPT ![p] = Surface(op[p], exc)]

\* backoff.expo(base=2, factor=1): the wait value after the n-th attempt
expo(n) == 2 ^ (n - 1)

\* backoff.random_jitter(value) = value + random.uniform(0, 1)
full_jitter_Added(value) == value..(value + 1)

\* backoff.full_jitter(value) = random.uniform(0, value), in whole seconds
full_jitter(value) == 0..value

\* a retrier without the max_tries cap
Raise_NoMaxTries(p, exc) ==
    \/ /\ Retryable(exc)
       /\ pc' = [pc EXCEPT ![p] = "backoff"]
       /\ \E d \in full_jitter(expo(tries[p])) : delay' = [delay EXCEPT ![p] = d]
       /\ UNCHANGED << outcome, surfaced >>
    \/ /\ ~Retryable(exc) \/ tries[p] > 1
       /\ Finish(p, exc)
       /\ UNCHANGED delay

\* backoff's retry_exception: the gate call raised exc in attempt tries[p].
\* It gives up when exc is not in its exception tuple, when tries == max_tries
\* or when elapsed >= max_time; elapsed is read before the attempt starts, so
\* the first attempt never gives up for time.  Otherwise it sleeps for
\* jitter(next(wait)) seconds; the retry_after of the exception is not read.
Raise(p, exc) ==
    \/ /\ Retryable(exc)
       /\ tries[p] # max_tries
       /\ pc' = [pc EXCEPT ![p] = "backoff"]
       /\ \E d \in full_jitter(expo(tries[p])) : delay' = [delay EXCEPT ![p] = d]
       /\ UNCHANGED << outcome, surfaced >>
    \/ /\ ~Retryable(exc) \/ tries[p] = max_tries \/ tries[p] > 1
       /\ Finish(p, exc)
       /\ UNCHANGED delay

\* ---- a public data operation is called ----
StartOp(p, o) ==
    /\ pc[p] \in {"idle", "done"}
    /\ ~GeneratorRunning
    /\ opsStarted < MaxOps
    /\ opsStarted' = opsStarted + 1
    /\ op' = [op EXCEPT ![p] = o]
    /\ attemptCalls' = [attemptCalls EXCEPT ![p] = 0]
    /\ reauths' = [reauths EXCEPT ![p] = 0]
    /\ response' = [response EXCEPT ![p] = NoResponse]
    /\ retry_after' = [retry_after EXCEPT ![p] = 0]
    /\ IF is_authenticated
       THEN /\ pc' = [pc EXCEPT ![p] = "waiting"]
            /\ tries' = [tries EXCEPT ![p] = 1]
            /\ outcome' = [outcome EXCEPT ![p] = "none"]
            /\ surfaced' = [surfaced EXCEPT ![p] = "none"]
       ELSE /\ pc' = [pc EXCEPT ![p] = "done"]
            /\ tries' = [tries EXCEPT ![p] = 0]
            /\ outcome' = [outcome EXCEPT ![p] = "NotAuthenticated"]
            /\ surfaced' = [surfaced EXCEPT ![p] = "GmailError"]
    /\ delay' = [delay EXCEPT ![p] = 0]
    /\ upstreamCalls' = [upstreamCalls EXCEPT ![p] = 0]
    /\ rateLimited' = [rateLimited EXCEPT ![p] = 0]
    /\ UNCHANGED << pureVars, token_refreshed, requests_per_minute, service, semaphore, quota_used,
                    quota_reset_time, now, stats, searchVars, watchVars >>

\* ---- _make_api_request ----
\* a semaphore that admits one caller too many
CanAcquire_OffByOne == semaphore >= 0

\* async with self._semaphore: a permit is free
CanAcquire == semaphore > 0

\* a quota check that forgets the cost of the request
QuotaAllows_IgnoresUnits(units) == ~(quota_used > DailyLimit)

\* the quota check at the head of the gate
QuotaAllows(units) == ~(quota_used + units > DailyLimit)

\* async with self._semaphore, the quota check, and the start of request_func
Enter(p) ==
    /\ pc[p] = "waiting"
    /\ CanAcquire
    /\ IF QuotaAllows(quota_units(p))
       THEN /\ semaphore' = semaphore - 1
            /\ pc' = [pc EXCEPT ![p] = "inflight"]
            /\ attemptCalls' = [attemptCalls EXCEPT ![p] = 1]
            /\ upstreamCalls' = [upstreamCalls EXCEPT ![p] = @ + 1]
            /\ UNCHANGED << outcome, surfaced >>
       ELSE /\ Finish(p, "GmailQuotaExceededError")
            /\ UNCHANGED << semaphore, attemptCalls, upstreamCalls >>
    /\ UNCHANGED << pureVars, token_refreshed, requests_per_minute, service, quota_used, quota_reset_time,
                    now, stats, op, tries, reauths, response, retry_after,
                    opsStarted, delay, rateLimited, searchVars, watchVars >>

\* the value of self._quota_used after a successful request of `units`
QuotaAfterSuccess(units) ==
    IF now >= quota_reset_time THEN 0 ELSE quota_used + units

\* the value of self._quota_reset_time after a successful request
ResetTimeAfterSuccess ==
    IF now >= quota_reset_time THEN now + Day ELSE quota_reset_time

\* self.stats after a successful request of `units`
StatsAfterSuccess(units) ==
    [stats EXCEPT !.requests_made = @ + 1, !.quota_units_used = @ + units]

\* request_func returned a response
RespondOk(p, r) ==
    /\ pc[p] = "inflight"
    /\ r.kind = "result"
    /\ response' = [response EXCEPT ![p] = r]
    /\ stats' = StatsAfterSuccess(quota_units(p))
    /\ quota_used' = QuotaAfterSuccess(quota_units(p))
    /\ quota_reset_time' = ResetTimeAfterSuccess
    /\ semaphore' = semaphore + 1
    /\ Finish(p, "ok")
    /\ UNCHANGED << pureVars, token_refreshed, requests_per_minute, service, now, op, tries, attemptCalls,
                    reauths, retry_after, opsStarted, callVars, searchVars, watchVars >>

\* request_func raised something that is not an HttpError: no except clause
\* of the gate catches it
RespondException(p, r) ==
    /\ pc[p] = "inflight"
    /\ r.kind = "Exception"
    /\ response' = [response EXCEPT ![p] = r]
    /\ semaphore' = semaphore + 1
    /\ Raise(p, "Exception")
    /\ UNCHANGED << pureVars, token_refreshed, requests_per_minute, service, quota_used, quota_reset_time,
                    now, stats, op, tries, attemptCalls, reauths, retry_after,
                    opsStarted, upstreamCalls, rateLimited, searchVars,
                    watchVars >>

\* a rate-limit response whose hit is counted together with a request made
StatsAfterRateLimit_Charged ==
    [stats EXCEPT !.rate_limit_hits = @ + 1, !.requests_made = @ + 1]

\* statistics that miss the rate-limit response
StatsAfterRateLimit_Uncounted == stats

\* self.stats after a rate-limit response
StatsAfterRateLimit == [stats EXCEPT !.rate_limit_hits = @ + 1]

\* request_func raised an HttpError that is not handled by re-authentication;
\* the upstream answers with at most maxHits rate-limit responses
RespondHttpError(p, r, maxHits) ==
    /\ pc[p] = "inflight"
    /\ r.kind = "HttpError"
    /\ Classify(r) # "reauth"
    /\ Classify(r) \in {"GmailRateLimitError", "ValueError"}
          => stats.rate_limit_hits < maxHits
    /\ response' = [response EXCEPT ![p] = r]
    /\ semaphore' = semaphore + 1
    /\ IF Classify(r) \in {"GmailRateLimitError", "ValueError"}
       THEN /\ stats' = StatsAfterRateLimit
            /\ rateLimited' = [rateLimited EXCEPT ![p] = @ + 1]
       ELSE /\ stats' = stats
            /\ rateLimited' = rateLimited
    /\ IF Classify(r) = "GmailRateLimitError"
       THEN retry_after' = [retry_after EXCEPT ![p] = ParseRetryAfter(r.header)]
       ELSE retry_after' = retry_after
    /\ Raise(p, Classify(r))
    /\ UNCHANGED << pureVars, token_refreshed, requests_per_minute, service, quota_used, quota_reset_time,
                    now, op, tries, attemptCalls, reauths, opsStarted,
                    upstreamCalls, searchVars, watchVars >>

\* request_func raised HTTP 401: authenticate() and, if it succeeds, the retry
RespondUnauthorized(p, r, a) ==
    /\ pc[p] = "inflight"
    /\ r.kind = "HttpError"
    /\ Classify(r) = "reauth"
    /\ response' = [response EXCEPT ![p] = r]
    /\ reauths' = [reauths EXCEPT ![p] = @ + 1]
    /\ service' = AuthService(a)
    /\ IF a = "fail"
       THEN /\ semaphore' = semaphore + 1
            /\ Raise(p, "GmailAuthenticationError")
            /\ UNCHANGED << attemptCalls, upstreamCalls, token_refreshed >>
       ELSE /\ pc' = [pc EXCEPT ![p] = "retry_inflight"]
            /\ attemptCalls' = [attemptCalls EXCEPT ![p] = @ + 1]
            /\ upstreamCalls' = [upstreamCalls EXCEPT ![p] = @ + 1]
            /\ token_refreshed' = [token_refreshed EXCEPT ![p] = NewToken(a)]
            /\ UNCHANGED << semaphore, outcome, surfaced, delay >>
    /\ UNCHANGED << pureVars, requests_per_minute, quota_used, quota_reset_time, now,
                    stats, op, tries, retry_after, opsStarted, rateLimited,
                    searchVars, watchVars >>

\* the retried request_func returned a response
RetryRespondOk(p, r) ==
    /\ pc[p] = "retry_inflight"
    /\ r.kind = "result"
    /\ response' = [response EXCEPT ![p] = r]
    /\ semaphore' = semaphore + 1
    /\ Finish(p, "ok")
    /\ token_refreshed' = [token_refreshed EXCEPT ![p] = FALSE]
    /\ UNCHANGED << pureVars, requests_per_minute, service, quota_used, quota_reset_time,
                    now, stats, op, tries, attemptCalls, reauths, retry_after,
                    opsStarted, callVars, searchVars, watchVars >>

\* the retried request_func raised: an HttpError of any status or any other
\* exception, all caught by the same `except Exception as auth_error`
RetryRespondError(p, r) ==
    /\ pc[p] = "retry_inflight"
    /\ r \in ErrorResponses
    /\ response' = [response EXCEPT ![p] = r]
    /\ semaphore' = semaphore + 1
    /\ Raise(p, "GmailAuthenticationError")
    /\ token_refreshed' = [token_refreshed EXCEPT ![p] = FALSE]
    /\ UNCHANGED << pureVars, requests_per_minute, service, quota_used, quota_reset_time,
                    now, stats, op, tries, attemptCalls, reauths, retry_after,
                    opsStarted, upstreamCalls, rateLimited, searchVars,
                    watchVars >>

\* a retrier whose next attempt calls request_func at once, without the
\* semaphore and without the quota check
Retry_SkipsGate(p) ==
    /\ pc[p] = "backoff"
    /\ pc' = [pc EXCEPT ![p] = "inflight"]
    /\ tries' = [tries EXCEPT ![p] = @ + 1]
    /\ attemptCalls' = [attemptCalls EXCEPT ![p] = 1]
    /\ upstreamCalls' = [upstreamCalls EXCEPT ![p] = @ + 1]
    /\ reauths' = [reauths EXCEPT ![p] = 0]
    /\ response' = [response EXCEPT ![p] = NoResponse]
    /\ retry_after' = [retry_after EXCEPT ![p] = 0]
    /\ delay' = [delay EXCEPT ![p] = 0]
    /\ UNCHANGED << pureVars, token_refreshed, requests_per_minute, service, semaphore, quota_used,
                    quota_reset_time, now, stats, op, outcome, surfaced,
                    opsStarted, rateLimited, searchVars, watchVars >>

\* ---- backoff.on_exception ----
\* the retrier's sleep is over: the next attempt calls the gate again
Retry(p) ==
    /\ pc[p] = "backoff"
    /\ pc' = [pc EXCEPT ![p] = "waiting"]
    /\ tries' = [tries EXCEPT ![p] = @ + 1]
    /\ attemptCalls' = [attemptCalls EXCEPT ![p] = 0]
    /\ reauths' = [reauths EXCEPT ![p] = 0]
    /\ response' = [response EXCEPT ![p] = NoResponse]
    /\ retry_after' = [retry_after EXCEPT ![p] = 0]
    /\ delay' = [delay EXCEPT ![p] = 0]
    /\ UNCHANGED << pureVars, token_refreshed, requests_per_minute, service, semaphore, quota_used,
                    quota_reset_time, now, stats, op, outcome, surfaced,
                    opsStarted, upstreamCalls, rateLimited, searchVars,
                    watchVars >>

\* ---- environment ----
\* a caller waiting for the semaphore is cancelled
Cancel(p) ==
    /\ pc[p] = "waiting"
    /\ Finish(p, "CancelledError")
    /\ UNCHANGED << pureVars, token_refreshed, requests_per_minute, service, semaphore, quota_used,
                    quota_reset_time, now, stats, op, tries, attemptCalls,
                    reauths, response, retry_after, opsStarted, callVars, searchVars, watchVars >>

\* a cancellation that does not give the permit back
PermitsAfterCancel_Kept(p) == semaphore

\* the semaphore after caller p's gate call is cancelled: __aexit__ of
\* `async with self._semaphore` releases the permit the call holds
PermitsAfterCancel(p) ==
    IF pc[p] \in {"inflight", "retry_inflight"} THEN semaphore + 1 ELSE semaphore

\* a caller is cancelled while it awaits asyncio.to_thread(request_func),
\* in the first invocation or in the retry, or while the retrier sleeps.
\* CancelledError is no Exception: no except clause of the gate or of the
\* public operation catches it, and the result of the thread is dropped.
CancelCall(p) ==
    /\ pc[p] \in {"inflight", "retry_inflight", "backoff"}
    /\ semaphore' = PermitsAfterCancel(p)
    /\ Finish(p, "CancelledError")
    /\ delay' = [delay EXCEPT ![p] = 0]
    /\ token_refreshed' = [token_refreshed EXCEPT ![p] = FALSE]
    /\ UNCHANGED << pureVars, requests_per_minute, service, quota_used,
                    quota_reset_time, now, stats, op, tries, attemptCalls,
                    reauths, response, retry_after, opsStarted, upstreamCalls,
                    rateLimited, searchVars, watchVars >>

\* the clock advances
Tick ==
    /\ now < MaxNow
    /\ now' = now + 1
    /\ UNCHANGED << pureVars, token_refreshed, requests_per_minute, service, semaphore, quota_used,
                    quota_reset_time, stats, pc, op, tries, attemptCalls,
                    reauths, response, outcome, retry_after, surfaced,
                    opsStarted, callVars, searchVars, watchVars >>

\* the steps of the callers in S running operations of O, the upstream
\* answering with at most maxHits rate-limit responses
NextFor(S, O, maxHits) ==
    \/ \E a \in AuthOutcomes : Authenticate(a)
    \/ \E p \in S, o \in O : StartOp(p, o)
    \/ \E p \in S : Enter(p)
    \/ \E p \in S, r \in Responses : RespondOk(p, r)
    \/ \E p \in S, r \in Responses : RespondException(p, r)
    \/ \E p \in S, r \in Responses : RespondHttpError(p, r, maxHits)
    \/ \E p \in S, r \in Responses, a \in AuthOutcomes : RespondUnauthorized(p, r, a)
    \/ \E p \in S, r \in Responses : RetryRespondOk(p, r)
    \/ \E p \in S, r \in Responses : RetryRespondError(p, r)
    \/ \E p \in S : Retry(p)
    \/ \E p \in S : Cancel(p)
    \/ Tick

\* all callers run concurrently
Next == NextFor(Callers, Ops, MaxHitsConcurrent)

Spec == Init /\ [][Next]_vars

\* one caller runs its operations one after the other, through the whole
\* retry budget
NextRetry == NextFor({1}, Ops, MaxRateLimitHits)

SpecRetry == Init /\ [][NextRetry]_vars

\* all callers run concurrently and contend for the gate with the most
\* expensive operation, download_attachment, one of which fills the budget
NextGate == NextFor(Callers, {"download"}, MaxHitsConcurrent)

SpecGate == Init /\ [][NextGate]_vars

(***************************************************************************)
(* search_messages and watch_for_new_messages: the two async generators.   *)
(* One coroutine, Searcher, iterates them; each page request is one        *)
(* decorated gate call of that coroutine.                                  *)
(***************************************************************************)
Searcher == 1

\* message IDs are strings; model them as sequences of digits: "1", "10", "2"
MessageIds == { <<1>>, <<1, 0>>, <<2>> }

\* the IDs of the mailbox searched by a plain search
SearchIds == { <<1>> }

\* Python's < on str: lexicographic by code point
RECURSIVE LexLess(_, _)
LexLess(a, b) ==
    IF a = << >> THEN b # << >>
    ELSE IF b = << >> THEN FALSE
    ELSE IF Head(a) # Head(b) THEN Head(a) < Head(b)
    ELSE LexLess(Tail(a), Tail(b))

\* an enumeration of the set S in descending order
RECURSIVE sorted_Descending(_)
sorted_Descending(S) ==
    IF S = {} THEN << >>
    ELSE LET m == CHOOSE x \in S : \A y \in S \ {x} : LexLess(y, x)
         IN  << m >> \o sorted_Descending(S \ {m})

\* sorted(S) for a set S of str
RECURSIVE sorted(_)
sorted(S) ==
    IF S = {} THEN << >>
    ELSE LET m == CHOOSE x \in S : \A y \in S \ {x} : LexLess(x, y)
         IN  << m >> \o sorted(S \ {m})

Range(s) == { s[i] : i \in 1..Len(s) }

Min(a, b) == IF a < b THEN a ELSE b

\* the "messages" lists a page of the provider may carry: at most maxLen of
\* the IDs I
Pages(I, maxLen) == UNION { [1..n -> I] : n \in 0..maxLen }

\* the max_results arguments a caller passes: None, 0, small limits, and one
\* above the page limit
MaxResultsChoices == {None, 0, 1, 2, 3, PageLimit + 1}

\* `if max_results`: an int is true iff it is set and not 0
Truthy(m) == m # None /\ m # 0

\* request_params["maxResults"]
PageSize(m, returned) ==
    IF Truthy(m) THEN Min(PageLimit, m - returned) ELSE PageLimit

\* caller p calls the decorated _make_api_request for operation o
CallGate(p, o) ==
    /\ op' = [op EXCEPT ![p] = o]
    /\ pc' = [pc EXCEPT ![p] = "waiting"]
    /\ tries' = [tries EXCEPT ![p] = 1]
    /\ attemptCalls' = [attemptCalls EXCEPT ![p] = 0]
    /\ reauths' = [reauths EXCEPT ![p] = 0]
    /\ response' = [response EXCEPT ![p] = NoResponse]
    /\ retry_after' = [retry_after EXCEPT ![p] = 0]
    /\ outcome' = [outcome EXCEPT ![p] = "none"]
    /\ surfaced' = [surfaced EXCEPT ![p] = "none"]
    /\ delay' = [delay EXCEPT ![p] = 0]
    /\ upstreamCalls' = [upstreamCalls EXCEPT ![p] = 0]
    /\ rateLimited' = [rateLimited EXCEPT ![p] = 0]

\* the per-caller variables of the gate call
gateCallVars == << op, pc, tries, attemptCalls, reauths, response, retry_after,
                   outcome, surfaced, callVars >>

\* the decorated call has returned or raised to the generator that made
\* it: its frame is gone
ReturnFromGate(p) ==
    /\ op' = [op EXCEPT ![p] = "search"]
    /\ pc' = [pc EXCEPT ![p] = "idle"]
    /\ tries' = [tries EXCEPT ![p] = 0]
    /\ attemptCalls' = [attemptCalls EXCEPT ![p] = 0]
    /\ reauths' = [reauths EXCEPT ![p] = 0]
    /\ response' = [response EXCEPT ![p] = NoResponse]
    /\ retry_after' = [retry_after EXCEPT ![p] = 0]
    /\ outcome' = [outcome EXCEPT ![p] = "none"]
    /\ surfaced' = [surfaced EXCEPT ![p] = "none"]
    /\ delay' = [delay EXCEPT ![p] = 0]
    /\ upstreamCalls' = [upstreamCalls EXCEPT ![p] = 0]
    /\ rateLimited' = [rateLimited EXCEPT ![p] = 0]

\* ---- search_messages ----
\* the generator body up to its first await: the authentication check, the
\* locals, and the first page request
BeginSearch(m) ==
    /\ max_results' = m
    /\ results_returned' = 0
    /\ page_token' = FALSE
    /\ yielded' = << >>
    /\ IF is_authenticated
       THEN /\ spc' = "requesting"
            /\ search_raised' = "none"
            /\ maxResults' = PageSize(m, 0)
            /\ pages' = 1
            /\ CallGate(Searcher, "search")
       ELSE /\ spc' = "raised"
            /\ search_raised' = "GmailError"
            /\ maxResults' = 0
            /\ pages' = 0
            /\ UNCHANGED gateCallVars

\* a consumer starts iterating search_messages(query, max_results=m); the
\* generators are run as the first MaxSessions operations of the consumer
StartSearch(m) ==
    /\ pc[Searcher] \in {"idle", "done"}
    /\ ~GeneratorRunning
    /\ opsStarted < MaxSessions
    /\ opsStarted' = opsStarted + 1
    /\ BeginSearch(m)
    /\ UNCHANGED << pureVars, token_refreshed, requests_per_minute, service, semaphore, quota_used,
                    quota_reset_time, now, stats, watchVars >>

\* how many of the n messages of a page are yielded before the generator
\* returns or the page ends
YieldedOfPage(m, returned, n) ==
    IF Truthy(m) THEN Min(n, m - returned) ELSE n

\* the gate call of a page request returned the page (ids, tok): the
\* generator yields its IDs, then returns, breaks or requests the next page;
\* the provider serves at most maxPages pages
ReceivePage(ids, tok, maxPages) ==
    /\ spc = "requesting"
    /\ pc[Searcher] = "done"
    /\ outcome[Searcher] = "ok"
    /\ LET k == YieldedOfPage(max_results, results_returned, Len(ids))
           returned == results_returned + k
           hitMax == Truthy(max_results) /\ k >= 1 /\ returned >= max_results
       IN  /\ yielded' = yielded \o SubSeq(ids, 1, k)
           /\ results_returned' = returned
           /\ IF hitMax \/ ~tok
              THEN /\ spc' = "returned"
                   /\ page_token' = IF hitMax THEN page_token ELSE FALSE
                   /\ ReturnFromGate(Searcher)
                   /\ UNCHANGED << maxResults, pages >>
              ELSE /\ pages < maxPages
                   /\ spc' = "requesting"
                   /\ page_token' = TRUE
                   /\ maxResults' = PageSize(max_results, returned)
                   /\ pages' = pages + 1
                   /\ CallGate(Searcher, "search")
    /\ UNCHANGED << pureVars, token_refreshed, requests_per_minute, service, semaphore, quota_used,
                    quota_reset_time, now, stats, opsStarted, max_results,
                    search_raised, watchVars >>

\* the gate call of a page request raised: `except Exception: raise`, and a
\* CancelledError passes through as well
SearchRaises ==
    /\ spc = "requesting"
    /\ pc[Searcher] = "done"
    /\ outcome[Searcher] # "ok"
    /\ spc' = "raised"
    /\ search_raised' = surfaced[Searcher]
    /\ ReturnFromGate(Searcher)
    /\ UNCHANGED << pureVars, token_refreshed, requests_per_minute, service, semaphore, quota_used,
                    quota_reset_time, now, stats, opsStarted,
                    max_results, results_returned, page_token, maxResults,
                    pages, yielded, watchVars >>

\* ---- watch_for_new_messages ----
\* current_message_ids, once the `async for` over the search is exhausted
current_message_ids == Range(yielded)

\* a watcher that reports every ID of the poll
NewMessageIds_All(current, seen) == current

\* a watcher that compares a poll with the IDs it has emitted
NewMessageIds_NotEmitted(current, seen) == current \ Range(emitted)

\* new_message_ids = current_message_ids - seen_message_ids
NewMessageIds(current, seen) == current \ seen

\* a watcher that replaces its baseline by the new IDs
SeenAfterUpdate_Replaced(seen, new) == new

\* seen_message_ids.update(new_message_ids)
SeenAfterUpdate(seen, new) == seen \cup new

\* a consumer starts iterating watch_for_new_messages(query): the
\* authentication check and the start of the baseline search
StartWatch ==
    /\ pc[Searcher] \in {"idle", "done"}
    /\ ~GeneratorRunning
    /\ opsStarted < MaxSessions
    /\ opsStarted' = opsStarted + 1
    /\ seen_message_ids' = {}
    /\ new_message_ids' = << >>
    /\ emitted' = << >>
    /\ polls' = 0
    /\ earlier_results' = {}
    /\ IF is_authenticated
       THEN /\ wpc' = "baseline"
            /\ watch_raised' = "none"
            /\ BeginSearch(WatchMaxResults)
       ELSE /\ wpc' = "ended"
            /\ watch_raised' = "GmailError"
            /\ UNCHANGED << searchVars, gateCallVars >>
    /\ UNCHANGED << pureVars, token_refreshed, requests_per_minute, service, semaphore, quota_used,
                    quota_reset_time, now, stats >>

\* the baseline search is exhausted; each ID it yielded was added to the
\* seen set
BaselineDone ==
    /\ wpc = "baseline"
    /\ spc = "returned"
    /\ seen_message_ids' = Range(yielded)
    /\ wpc' = "sleeping"
    /\ UNCHANGED << pureVars, earlier_results, token_refreshed, requests_per_minute, service, semaphore, quota_used,
                    quota_reset_time, now, stats, opsStarted, gateCallVars,
                    searchVars, new_message_ids, emitted, polls,
                    watch_raised >>

\* a watcher that passes the error of its baseline search to the consumer
BaselineFails_Raises ==
    /\ wpc = "baseline"
    /\ spc = "raised"
    /\ seen_message_ids' = Range(yielded)
    /\ wpc' = "ended"
    /\ watch_raised' = search_raised
    /\ UNCHANGED << pureVars, earlier_results, token_refreshed, requests_per_minute, service, semaphore, quota_used,
                    quota_reset_time, now, stats, opsStarted, gateCallVars,
                    searchVars, new_message_ids, emitted, polls >>

\* the baseline search raised: `except Exception: return`; a CancelledError
\* is not an Exception and reaches the consumer
BaselineFails ==
    /\ wpc = "baseline"
    /\ spc = "raised"
    /\ seen_message_ids' = Range(yielded)
    /\ wpc' = "ended"
    /\ watch_raised' = IF search_raised = "CancelledError"
                       THEN "CancelledError" ELSE "none"
    /\ UNCHANGED << pureVars, earlier_results, token_refreshed, requests_per_minute, service, semaphore, quota_used,
                    quota_reset_time, now, stats, opsStarted, gateCallVars,
                    searchVars, new_message_ids, emitted, polls >>

\* await asyncio.sleep(interval) at the head of the loop is over: the poll
\* search starts.  The result of the search that came before it, the
\* baseline or a poll, joins the history if that search was exhausted.
Wake ==
    /\ wpc = "sleeping"
    /\ polls < MaxPolls
    /\ polls' = polls + 1
    /\ wpc' = "polling"
    /\ earlier_results' = IF spc = "returned"
                          THEN earlier_results \cup Range(yielded)
                          ELSE earlier_results
    /\ BeginSearch(WatchMaxResults)
    /\ UNCHANGED << pureVars, token_refreshed, requests_per_minute, service, semaphore, quota_used,
                    quota_reset_time, now, stats, opsStarted,
                    seen_message_ids, new_message_ids, emitted, watch_raised >>

\* the poll search is exhausted: the new IDs are computed, added to the seen
\* set and sorted for the yields
PollDone ==
    /\ wpc = "polling"
    /\ spc = "returned"
    /\ LET new == NewMessageIds(current_message_ids, seen_message_ids)
       IN  IF new # {}
           THEN /\ seen_message_ids' = SeenAfterUpdate(seen_message_ids, new)
                /\ new_message_ids' = sorted(new)
                /\ wpc' = "yielding"
           ELSE /\ wpc' = "sleeping"
                /\ UNCHANGED << seen_message_ids, new_message_ids >>
    /\ UNCHANGED << pureVars, earlier_results, token_refreshed, requests_per_minute, service, semaphore, quota_used,
                    quota_reset_time, now, stats, opsStarted, gateCallVars,
                    searchVars, emitted, polls, watch_raised >>

\* yield message_id: the consumer receives the ID and the generator stays
\* suspended at the yield until the consumer asks for the next one
YieldNew ==
    /\ wpc = "yielding"
    /\ emitted' = Append(emitted, Head(new_message_ids))
    /\ new_message_ids' = Tail(new_message_ids)
    /\ wpc' = "suspended"
    /\ UNCHANGED << pureVars, earlier_results, token_refreshed, requests_per_minute, service, semaphore, quota_used,
                    quota_reset_time, now, stats, opsStarted, gateCallVars,
                    searchVars, seen_message_ids, polls, watch_raised >>

\* the consumer asks for the next ID: the for loop goes on to its next yield
\* or, the new IDs exhausted, to the sleep at the head of the while loop
ResumeWatch ==
    /\ wpc = "suspended"
    /\ wpc' = IF new_message_ids = << >> THEN "sleeping" ELSE "yielding"
    /\ UNCHANGED << pureVars, earlier_results, token_refreshed, requests_per_minute, service, semaphore, quota_used,
                    quota_reset_time, now, stats, opsStarted, gateCallVars,
                    searchVars, seen_message_ids, new_message_ids, emitted,
                    polls, watch_raised >>

\* a watcher that a failed poll terminates, the error reaching the consumer
PollFails_Terminates ==
    /\ wpc = "polling"
    /\ spc = "raised"
    /\ wpc' = "ended"
    /\ watch_raised' = search_raised
    /\ UNCHANGED << pureVars, earlier_results, token_refreshed, requests_per_minute, service, semaphore, quota_used,
                    quota_reset_time, now, stats, opsStarted, gateCallVars,
                    searchVars, seen_message_ids, new_message_ids, emitted,
                    polls >>

\* the poll search raised: CancelledError breaks the loop, an Exception is
\* logged and followed by a sleep
PollFails ==
    /\ wpc = "polling"
    /\ spc = "raised"
    /\ wpc' = IF search_raised = "CancelledError"
              THEN "ended" ELSE "error_sleep"
    /\ UNCHANGED << pureVars, earlier_results, token_refreshed, requests_per_minute, service, semaphore, quota_used,
                    quota_reset_time, now, stats, opsStarted, gateCallVars,
                    searchVars, seen_message_ids, new_message_ids, emitted,
                    polls, watch_raised >>

\* the sleep of the except clause is over: continue
ErrorSleepOver ==
    /\ wpc = "error_sleep"
    /\ wpc' = "sleeping"
    /\ UNCHANGED << pureVars, earlier_results, token_refreshed, requests_per_minute, service, semaphore, quota_used,
                    quota_reset_time, now, stats, opsStarted, gateCallVars,
                    searchVars, seen_message_ids, new_message_ids, emitted,
                    polls, watch_raised >>

\* the watching coroutine is cancelled during a sleep: the sleep of the try block
\* is covered by `except asyncio.CancelledError: break`, the sleep of the
\* except clause is not
CancelWatch ==
    /\ wpc \in {"sleeping", "error_sleep"}
    /\ wpc' = "ended"
    /\ watch_raised' = IF wpc = "error_sleep" THEN "CancelledError"
                       ELSE watch_raised
    /\ UNCHANGED << pureVars, earlier_results, token_refreshed, requests_per_minute, service, semaphore, quota_used,
                    quota_reset_time, now, stats, opsStarted, gateCallVars,
                    searchVars, seen_message_ids, new_message_ids, emitted,
                    polls >>

\* the consumer closes the generator while it is suspended at a yield
CloseWatch ==
    /\ wpc = "suspended"
    /\ wpc' = "ended"
    /\ UNCHANGED << pureVars, earlier_results, token_refreshed, requests_per_minute, service, semaphore, quota_used,
                    quota_reset_time, now, stats, opsStarted, gateCallVars,
                    searchVars, seen_message_ids, new_message_ids, emitted,
                    polls, watch_raised >>

\* the steps of the gate calls of the callers in S, the upstream answering
\* with responses of R, at most maxHits of them rate-limit responses
GateSteps(S, R, maxHits) ==
    \/ \E p \in S : Enter(p)
    \/ \E p \in S, r \in R : RespondOk(p, r)
    \/ \E p \in S, r \in R : RespondException(p, r)
    \/ \E p \in S, r \in R : RespondHttpError(p, r, maxHits)
    \/ \E p \in S, r \in R, a \in AuthOutcomes : RespondUnauthorized(p, r, a)
    \/ \E p \in S, r \in R : RetryRespondOk(p, r)
    \/ \E p \in S, r \in R : RetryRespondError(p, r)
    \/ \E p \in S : Retry(p)

\* one response of each kind the gate tells apart
ResponseKinds ==
    { Response("result", 200, "", "absent"),
      Response("HttpError", 429, "", "2"),
      Response("HttpError", 403, "quotaExceeded", "absent"),
      Response("HttpError", 401, "", "absent"),
      Response("HttpError", 500, "", "absent"),
      Response("Exception", 0, "", "absent") }

\* the steps of search_messages over a mailbox of the IDs I that the
\* provider serves in at most maxPages pages of at most maxLen IDs
SearchSteps(I, maxLen, maxPages) ==
    \/ \E ids \in Pages(I, maxLen), tok \in BOOLEAN :
          ReceivePage(ids, tok, maxPages)
    \/ SearchRaises

\* one consumer runs searches, one after the other
NextSearch ==
    \/ \E a \in AuthOutcomes : Authenticate(a)
    \/ \E m \in MaxResultsChoices : StartSearch(m)
    \/ GateSteps({Searcher}, Responses, MaxHitsConcurrent)
    \/ SearchSteps(SearchIds, MaxPageLen, MaxPages)
    \/ Cancel(Searcher)
    \/ Tick

SpecSearch == Init /\ [][NextSearch]_vars

\* the event loop runs every coroutine that is ready, and the provider
\* answers every request; nothing makes a consumer start or cancel a call
FairSearch ==
    /\ WF_vars(GateSteps({Searcher}, Responses, MaxHitsConcurrent))
    /\ WF_vars(SearchSteps(SearchIds, MaxPageLen, MaxPages))

SpecSearchLive == SpecSearch /\ FairSearch

\* the steps of watch_for_new_messages after its start
WatchSteps ==
    \/ BaselineDone
    \/ BaselineFails
    \/ Wake
    \/ PollDone
    \/ YieldNew
    \/ ResumeWatch
    \/ PollFails
    \/ ErrorSleepOver
    \/ CancelWatch
    \/ CloseWatch

\* one consumer runs watch sessions over a mailbox that the provider serves in
\* at most two pages of one ID each
NextWatch ==
    \/ \E a \in AuthOutcomes : Authenticate(a)
    \/ StartWatch
    \/ GateSteps({Searcher}, ResponseKinds, MaxHitsConcurrent)
    \/ SearchSteps(MessageIds, 1, 2)
    \/ WatchSteps
    \/ Cancel(Searcher)

SpecWatch == Init /\ [][NextWatch]_vars

\* one consumer uses every data operation of the client, one after the other
NextClient ==
    \/ \E a \in AuthOutcomes : Authenticate(a)
    \/ \E o \in Ops \ {"search"} : StartOp(Searcher, o)
    \/ StartSearch(None)
    \/ StartWatch
    \/ GateSteps({Searcher}, Responses, MaxHitsConcurrent)
    \/ SearchSteps(SearchIds, 1, 1)
    \/ WatchSteps
    \/ Cancel(Searcher)

SpecClient == Init /\ [][NextClient]_vars

\* all callers run download_attachment concurrently and may be cancelled at
\* every await of the decorated gate call
NextCancel ==
    \/ \E a \in AuthOutcomes : Authenticate(a)
    \/ \E p \in Callers : StartOp(p, "download")
    \/ GateSteps(Callers, ResponseKinds, MaxHitsConcurrent)
    \/ \E p \in Callers : Cancel(p)
    \/ \E p \in Callers : CancelCall(p)

SpecCancel == Init /\ [][NextCancel]_vars

\* ---- the part tree of a message: _find_attachments and its two callers ----
\* get(key) of a part gives a non-empty string: the key is present and truthy
IsSet(s) == s # ""

\* the values of body.attachmentId and of filename: absent or empty, or set
AttachmentIds == {"", "att"}
Filenames == {"", "f.pdf"}

RECURSIVE PayloadsOfSize(_), PartListsOfSize(_)
\* the payloads of exactly n parts, the root included
PayloadsOfSize(n) ==
    IF n = 0 THEN {}
    ELSE {[attachmentId |-> a, filename |-> f, parts |-> ps] :
             a \in AttachmentIds, f \in Filenames,
             ps \in PartListsOfSize(n - 1)}

\* the values of payload["parts"] that hold n parts in all, at every depth
PartListsOfSize(n) ==
    IF n = 0 THEN {<< >>}
    ELSE UNION {{<< p >> \o ps : p \in PayloadsOfSize(k),
                                 ps \in PartListsOfSize(n - k)} : k \in 1..n}

\* the payloads the provider sends: part trees of at most MaxParts parts
Payloads == UNION {PayloadsOfSize(n) : n \in 1..MaxParts}

\* a search that looks at the payload and at its direct parts only
find_attachments_TopLevel(pl) ==
    (IF IsSet(pl.attachmentId) /\ IsSet(pl.filename) THEN << pl >> ELSE << >>)
    \o SelectSeq(pl.parts,
                 LAMBDA p : IsSet(p.attachmentId) /\ IsSet(p.filename))

RECURSIVE _find_attachments(_), ExtendWithParts(_)
\* _find_attachments(payload): the payload itself if it has both a
\* body.attachmentId and a filename, then the finds of its parts in order
_find_attachments(pl) ==
    (IF IsSet(pl.attachmentId) /\ IsSet(pl.filename) THEN << pl >> ELSE << >>)
    \o ExtendWithParts(pl.parts)

\* for part in payload.get("parts", []): attachments.extend(...)
ExtendWithParts(ps) ==
    IF ps = << >> THEN << >>
    ELSE _find_attachments(Head(ps)) \o ExtendWithParts(Tail(ps))

\* a count of the direct parts of the payload
attachment_count_DirectParts(pl) == Len(pl.parts)

\* attachment_count=len(attachments) in get_message_details
attachment_count(pl) == Len(_find_attachments(pl))

\* has_attachments=len(attachments) > 0 in get_message_details
has_attachments(pl) == Len(_find_attachments(pl)) > 0

\* the EmailAttachment built from an attachment part
EmailAttachment(part) ==
    [attachment_id |-> part.attachmentId, filename |-> part.filename]

RECURSIVE EmailAttachments(_)
\* the loop of get_message_attachments over attachment_parts: a part with a
\* truthy attachmentId appends one EmailAttachment
EmailAttachments(parts) ==
    IF parts = << >> THEN << >>
    ELSE (IF IsSet(Head(parts).attachmentId)
          THEN << EmailAttachment(Head(parts)) >> ELSE << >>)
         \o EmailAttachments(Tail(parts))

\* get_message_details parses the payload of the message it fetched
ParseDetails ==
    /\ called = "none"
    /\ called' = "get_message_details"
    /\ message' = [has_attachments |-> has_attachments(payload),
                   attachment_count |-> attachment_count(payload)]
    /\ UNCHANGED << requests_per_minute, service, semaphore, quota_used,
                    quota_reset_time, now, stats, opsStarted, gateCallVars,
                    searchVars, watchVars, token_refreshed, payload,
                    attachments, query_args, query, filename, clean_name,
                    yaml_data, config >>

\* get_message_attachments parses the payload of the same message
ParseAttachments ==
    /\ called = "get_message_details"
    /\ called' = "get_message_attachments"
    /\ attachments' = EmailAttachments(_find_attachments(payload))
    /\ UNCHANGED << requests_per_minute, service, semaphore, quota_used,
                    quota_reset_time, now, stats, opsStarted, gateCallVars,
                    searchVars, watchVars, token_refreshed, payload, message,
                    query_args, query, filename, clean_name, yaml_data,
                    config >>

\* a client of the default kind that has fetched a message with any payload;
\* the parsers read no field of the client
InitPayload ==
    /\ InitClient
    /\ requests_per_minute = 60
    /\ called = "none"
    /\ payload \in Payloads
    /\ message = NoMessage
    /\ attachments = << >>
    /\ query_args = NoArgs
    /\ query = << >>
    /\ NoUtilityCall

\* the two parsers applied, one after the other, to the payload
NextPayload ==
    \/ ParseDetails
    \/ ParseAttachments

SpecPayload == InitPayload /\ [][NextPayload]_vars

\* ---- strings, as sequences of characters ----
Lowercase == << "a", "b", "c", "d", "e", "f", "g", "h", "i", "j", "k", "l", "m", "n",
              "o", "p", "q", "r", "s", "t", "u", "v", "w", "x", "y", "z" >>
Uppercase == << "A", "B", "C", "D", "E", "F", "G", "H", "I", "J", "K", "L", "M", "N",
              "O", "P", "Q", "R", "S", "T", "U", "V", "W", "X", "Y", "Z" >>
Digits == << "0", "1", "2", "3", "4", "5", "6", "7", "8", "9" >>
Letters == Range(Lowercase) \cup Range(Uppercase)
DigitChars == Range(Digits)
Whitespace == {" ", "\t", "\n"}

\* str.lower()
lower(s) ==
    [i \in 1..Len(s) |->
        IF s[i] \in Range(Uppercase)
        THEN Lowercase[CHOOSE k \in 1..Len(Uppercase) : Uppercase[k] = s[i]]
        ELSE s[i]]

RECURSIVE lstrip(_, _)
\* str.lstrip(chars)
lstrip(s, chars) ==
    IF s # << >> /\ Head(s) \in chars THEN lstrip(Tail(s), chars) ELSE s

RECURSIVE rstrip(_, _)
\* str.rstrip(chars)
rstrip(s, chars) ==
    IF s # << >> /\ s[Len(s)] \in chars
    THEN rstrip(SubSeq(s, 1, Len(s) - 1), chars) ELSE s

\* str.strip()
strip(s) == rstrip(lstrip(s, Whitespace), Whitespace)

RECURSIVE Join_Trailing(_, _)
\* a join that writes the separator after every part
Join_Trailing(sep, parts) ==
    IF parts = << >> THEN << >>
    ELSE Head(parts) \o sep \o Join_Trailing(sep, Tail(parts))

RECURSIVE Join(_, _)
\* sep.join(parts)
Join(sep, parts) ==
    IF parts = << >> THEN << >>
    ELSE IF Len(parts) = 1 THEN Head(parts)
    ELSE Head(parts) \o sep \o Join(sep, Tail(parts))

RECURSIVE Split(_, _)
\* str.split(sep) for a separator of one character
Split(s, sep) ==
    LET at == {i \in 1..Len(s) : s[i] = sep}
    IN  IF at = {} THEN << s >>
        ELSE LET i == CHOOSE i \in at : \A j \in at : i <= j
             IN  << SubSeq(s, 1, i - 1) >>
                 \o Split(SubSeq(s, i + 1, Len(s)), sep)

RECURSIVE int(_)
\* int(s) for a string of decimal digits
int(s) ==
    IF s = << >> THEN 0
    ELSE 10 * int(SubSeq(s, 1, Len(s) - 1))
         + (CHOOSE v \in 0..9 : Digits[v + 1] = s[Len(s)])

RECURSIVE str(_)
\* str(n) for a natural number
str(n) == IF n < 10 THEN << Digits[n + 1] >>
          ELSE str(n \div 10) \o << Digits[(n % 10) + 1] >>

\* ---- utils.is_valid_email, utils.extract_email_address ----
LocalChars == Letters \cup DigitChars \cup {".", "_", "%", "+", "-"}
DomainChars == Letters \cup DigitChars \cup {".", "-"}

\* re.match of ^[a-zA-Z0-9._%+-]+@[a-zA-Z0-9.-]+\.[a-zA-Z]{2,}$ on the
\* stripped string, after the tests of emptiness and length
is_valid_email(email) ==
    LET e == strip(email)
    IN  /\ email # << >>
        /\ Len(e) >= 5
        /\ Len(e) <= 254
        /\ \E i, j \in 1..Len(e) :
              /\ 1 < i /\ i + 1 < j /\ j + 2 <= Len(e)
              /\ e[i] = "@"
              /\ e[j] = "."
              /\ \A k \in 1..(i - 1) : e[k] \in LocalChars
              /\ \A k \in (i + 1)..(j - 1) : e[k] \in DomainChars
              /\ \A k \in (j + 1)..Len(e) : e[k] \in Letters

\* re.search(r'<(.+?)>', s): group 1 of the leftmost shortest match, or
\* << >> when there is none (group 1 is never empty)
BracketMatch(s) ==
    LET opens == {p \in 1..Len(s) :
                    s[p] = "<" /\ \E q \in (p + 2)..Len(s) : s[q] = ">"}
    IN  IF opens = {} THEN << >>
        ELSE LET p == CHOOSE p \in opens : \A o \in opens : p <= o
                 q == CHOOSE q \in (p + 2)..Len(s) :
                         s[q] = ">" /\ \A r \in (p + 2)..(q - 1) : s[r] # ">"
             IN  SubSeq(s, p + 1, q - 1)

extract_email_address(full_email) ==
    IF full_email = << >> THEN << >>
    ELSE LET clean_email == strip(full_email)
             extracted == strip(BracketMatch(clean_email))
             potential_email == lower(clean_email)
         IN  IF BracketMatch(clean_email) # << >> /\ is_valid_email(extracted)
             THEN lower(extracted)
             ELSE IF is_valid_email(potential_email) THEN potential_email
             ELSE full_email

\* ---- utils.parse_date ----
\* parse_date returns None
NoDate == [year |-> 0, month |-> 0, day |-> 0]

\* the formats tried, in order: the separator and the order of the fields
date_formats ==
    << [sep |-> "-", fields |-> << "Y", "m", "d" >>],
       [sep |-> "/", fields |-> << "Y", "m", "d" >>],
       [sep |-> "/", fields |-> << "d", "m", "Y" >>],
       [sep |-> "/", fields |-> << "m", "d", "Y" >>],
       [sep |-> "-", fields |-> << "d", "m", "Y" >>],
       [sep |-> "-", fields |-> << "m", "d", "Y" >>],
       [sep |-> ".", fields |-> << "Y", "m", "d" >>],
       [sep |-> ".", fields |-> << "d", "m", "Y" >>] >>

IsNumber(s) == s # << >> /\ \A i \in 1..Len(s) : s[i] \in DigitChars

\* the directive matches the whole field: %Y is four digits, %m is 1 to 12
\* and %d is 1 to 31 in one or two digits
MatchesDirective(s, directive) ==
    /\ IsNumber(s)
    /\ CASE directive = "Y" -> Len(s) = 4
         [] directive = "m" -> Len(s) \in {1, 2} /\ int(s) \in 1..12
         [] directive = "d" -> Len(s) \in {1, 2} /\ int(s) \in 1..31

\* calendar.monthrange
DaysInMonth(year, month) ==
    IF month = 2
    THEN IF year % 4 = 0 /\ (year % 100 # 0 \/ year % 400 = 0) THEN 29 ELSE 28
    ELSE IF month \in {4, 6, 9, 11} THEN 30 ELSE 31

\* datetime.strptime(s, format): the date, or NoDate where it raises
\* ValueError
strptime(s, format) ==
    LET parts == Split(s, format.sep)
        Field(directive) ==
            int(parts[CHOOSE k \in 1..3 : format.fields[k] = directive])
    IN  IF /\ Len(parts) = 3
           /\ \A k \in 1..3 : MatchesDirective(parts[k], format.fields[k])
           /\ Field("Y") >= 1
           /\ Field("d") <= DaysInMonth(Field("Y"), Field("m"))
        THEN [year |-> Field("Y"), month |-> Field("m"), day |-> Field("d")]
        ELSE NoDate

RECURSIVE TryFormats(_, _)
\* the loop over date_formats from the k-th format on
TryFormats(s, k) ==
    IF k > Len(date_formats) THEN NoDate
    ELSE IF strptime(s, date_formats[k]) # NoDate
         THEN strptime(s, date_formats[k])
         ELSE TryFormats(s, k + 1)

parse_date(date_string) == TryFormats(strip(date_string), 1)

\* %m and %d of strftime: two digits
TwoDigits(n) == IF n < 10 THEN << "0" >> \o str(n) ELSE str(n)

\* parsed_date.strftime('%Y/%m/%d')
strftime(d) ==
    str(d.year) \o << "/" >> \o TwoDigits(d.month) \o << "/" >>
    \o TwoDigits(d.day)

\* ---- build_search_query ----
\* a builder that parenthesizes a single clause too
Group_Always(clauses) ==
    << "(" >> \o Join(<< " ", "O", "R", " " >>, clauses) \o << ")" >>

\* one clause as it is, several as (c1 OR c2 ...)
Group(clauses) ==
    IF Len(clauses) = 1 THEN clauses[1]
    ELSE << "(" >> \o Join(<< " ", "O", "R", " " >>, clauses) \o << ")" >>

\* a builder that does not validate the senders
valid_senders_Unchecked(senders) ==
    [i \in 1..Len(senders) |-> extract_email_address(senders[i])]

\* valid_senders: the extracted addresses that pass is_valid_email, in
\* input order
valid_senders(senders) ==
    SelectSeq([i \in 1..Len(senders) |-> extract_email_address(senders[i])],
              is_valid_email)

\* the senders clause appended to query_parts
sender_parts(senders) ==
    LET valid == valid_senders(senders)
    IN  IF valid = << >> THEN << >>
        ELSE << Group([i \in 1..Len(valid) |->
                         << "f", "r", "o", "m", ":" >> \o valid[i]]) >>

\* the after: or before: clause appended to query_parts
date_parts(prefix, date_string) ==
    IF date_string = << >> \/ parse_date(date_string) = NoDate THEN << >>
    ELSE << prefix \o strftime(parse_date(date_string)) >>

\* the extensions clause appended to query_parts
extension_parts(extensions) ==
    IF extensions = << >> THEN << >>
    ELSE << Group([i \in 1..Len(extensions) |->
                     << "f", "i", "l", "e", "n", "a", "m", "e", ":" >>
                     \o lstrip(extensions[i], {"."})]) >>

\* the clauses of the subject keywords
subject_parts(keywords) ==
    [i \in 1..Len(keywords) |->
        << "s", "u", "b", "j", "e", "c", "t", ":" >> \o << "\"" >> \o keywords[i]
        \o << "\"" >>]

\* the clauses of the excluded keywords
exclude_parts(keywords) == [i \in 1..Len(keywords) |-> << "-" >> \o keywords[i]]

\* query_parts at the join
query_parts(args) ==
    sender_parts(args.senders)
    \o date_parts(<< "a", "f", "t", "e", "r", ":" >>, args.after_date)
    \o date_parts(<< "b", "e", "f", "o", "r", "e", ":" >>, args.before_date)
    \o (IF args.has_attachment
        THEN << << "h", "a", "s", ":", "a", "t", "t", "a", "c", "h", "m", "e", "n", "t" >> >>
        ELSE << >>)
    \o extension_parts(args.extensions)
    \o subject_parts(args.subject_keywords)
    \o exclude_parts(args.exclude_keywords)

build_search_query(args) == Join(<< " " >>, query_parts(args))

\* the arguments the builder is applied to
SenderChoices ==
    { << "a", "@", "x", ".", "c", "o", "m" >>,
      << "b", "@", "x", ".", "c", "o", "m" >>,
      << "B", "o", " ", "<", "B", "@", "X", ".", "c", "o", "m", ">" >>,
      << "a", "@", "x" >> }
AfterDateChoices ==
    { << >>,
      << "5", "/", "1", "/", "2", "0", "2", "4" >>,
      << "2", "0", "2", "4", "-", "1", "3", "-", "0", "1" >> }
BeforeDateChoices ==
    { << >>,
      << "2", "0", "2", "4", ".", "0", "2", ".", "2", "9" >>,
      << "2", "9", ".", "0", "2", ".", "2", "0", "2", "3" >> }
ExtensionChoices == { << ".", "c", "s", "v" >> }
SubjectChoices == { << "i", "n", "v", "o", "i", "c", "e" >> }
ExcludeChoices == { << "s", "p", "a", "m" >> }

\* the lists of at most n elements of S; None and [] are both << >>
ListsUpTo(S, n) == UNION {[1..k -> S] : k \in 0..n}

QueryArgs ==
    [senders : ListsUpTo(SenderChoices, MaxSenders),
     after_date : AfterDateChoices,
     before_date : BeforeDateChoices,
     has_attachment : BOOLEAN,
     extensions : ListsUpTo(ExtensionChoices, MaxTerms),
     subject_keywords : ListsUpTo(SubjectChoices, MaxTerms),
     exclude_keywords : ListsUpTo(ExcludeChoices, MaxTerms)]

\* a client about to build a query from any combination of arguments; the
\* builder reads no field of the client
InitQuery ==
    /\ InitClient
    /\ requests_per_minute = 60
    /\ called = "none"
    /\ payload = NoPayload
    /\ message = NoMessage
    /\ attachments = << >>
    /\ query_args \in QueryArgs
    /\ query = << >>
    /\ NoUtilityCall

\* build_search_query is applied to the arguments
BuildSearchQuery ==
    /\ called = "none"
    /\ called' = "build_search_query"
    /\ query' = build_search_query(query_args)
    /\ UNCHANGED << requests_per_minute, service, semaphore, quota_used,
                    quota_reset_time, now, stats, opsStarted, gateCallVars,
                    searchVars, watchVars, token_refreshed, payload, message,
                    attachments, query_args, filename, clean_name, yaml_data,
                    config >>

NextQuery == BuildSearchQuery

SpecQuery == InitQuery /\ [][NextQuery]_vars

\* ---- config.py: _apply_yaml_to_config ----
\* the sections of AppConfig and the fields of their dataclasses
Sections == {"gmail", "filters", "download", "watch", "logging"}

SectionKeys(s) ==
    CASE s = "gmail" ->
           {"credentials_file", "token_file", "scopes", "requests_per_minute",
            "requests_per_day", "max_retries", "backoff_factor"}
      [] s = "filters" ->
           {"senders", "extensions", "after_date", "before_date", "min_size",
            "max_size", "subject_keywords", "subject_exclude_keywords",
            "has_attachment"}
      [] s = "download" ->
           {"base_dir", "organize_by", "naming_strategy", "overwrite_existing",
            "create_missing_dirs", "file_permissions",
            "max_concurrent_downloads", "chunk_size", "enable_resume",
            "temp_suffix"}
      [] s = "watch" ->
           {"check_interval", "show_notifications", "max_runtime_minutes",
            "quiet_start_hour", "quiet_end_hour"}
      [] s = "logging" ->
           {"level", "file_path", "format_string", "max_file_size",
            "backup_count", "json_format", "include_request_id"}

\* the fields of AppConfig itself that are not sections
TopLevelKeys == {"app_name", "version"}

\* a setting is named by its path: << section, field >> or << field >>
SectionSettings == UNION {{<< s, k >> : k \in SectionKeys(s)} : s \in Sections}

Settings == SectionSettings \cup {<< k >> : k \in TopLevelKeys}

\* AppConfig(): every setting has its default
AppConfig == [x \in Settings |-> "default"]

\* the keys that config.to_dict() writes and a YAML file may hold: the path
\* << section >> stands for a section given as an empty mapping.  The value
\* a YAML file gives to a setting is written "yaml" and differs from the
\* default.
YamlKeys == Settings \cup {<< s >> : s \in Sections}

\* `"section" in yaml_data`
HasSection(data, s) == \E x \in data : x[1] = s

\* `if "key" in section_data: config.section.key = section_data["key"]`,
\* for the fields of the five sections
_apply_yaml_to_config(cfg, data) ==
    [x \in Settings |->
        IF Len(x) = 2 /\ HasSection(data, x[1]) /\ x \in data
        THEN "yaml" ELSE cfg[x]]

RECURSIVE KeySetsUpTo(_)
\* the sets of at most n keys
KeySetsUpTo(n) ==
    IF n = 0 THEN {{}}
    ELSE LET smaller == KeySetsUpTo(n - 1)
         IN  smaller \cup {d \cup {x} : d \in smaller, x \in YamlKeys}

\* the YAML data of a file that sets at most MaxYamlKeys keys
YamlData == KeySetsUpTo(MaxYamlKeys)

\* load_config has built AppConfig() and parsed a YAML file
InitConfig ==
    /\ InitClient
    /\ requests_per_minute = 60
    /\ called = "none"
    /\ payload = NoPayload
    /\ message = NoMessage
    /\ attachments = << >>
    /\ query_args = NoArgs
    /\ query = << >>
    /\ filename = << >>
    /\ clean_name = << >>
    /\ yaml_data \in YamlData
    /\ config = AppConfig

\* config = _apply_yaml_to_config(config, yaml_data)
ApplyYaml ==
    /\ called = "none"
    /\ called' = "_apply_yaml_to_config"
    /\ config' = _apply_yaml_to_config(config, yaml_data)
    /\ UNCHANGED << requests_per_minute, service, semaphore, quota_used,
                    quota_reset_time, now, stats, opsStarted, gateCallVars,
                    searchVars, watchVars, token_refreshed, payload, message,
                    attachments, query_args, query, filename, clean_name,
                    yaml_data >>

NextConfig == ApplyYaml

SpecConfig == InitConfig /\ [][NextConfig]_vars

\* ---- utils.py: sanitize_filename ----
\* A character is a string of length one, or the name "U+XXXX" of a code
\* point outside ASCII: U+00E9 is e with acute, U+0301 the combining acute
\* accent, U+FF1C the fullwidth less-than sign.
NonAscii == {"U+00E9", "U+0301", "U+FF1C"}

\* illegal_chars
illegal_chars == {"<", ">", ":", "\"", "/", "\\", "|", "?", "*"}

\* the literal "unnamed_file"
unnamed_file == << "u", "n", "n", "a", "m", "e", "d", "_", "f", "i", "l", "e" >>

\* for char in illegal_chars: clean_name = clean_name.replace(char, '_')
ReplaceIllegal(s) ==
    [i \in 1..Len(s) |-> IF s[i] \in illegal_chars THEN "_" ELSE s[i]]

\* the compatibility decomposition of one character: U+00E9 decomposes into
\* e and the combining accent, U+FF1C into the ASCII less-than sign
NFKD(c) ==
    CASE c = "U+00E9" -> << "e", "U+0301" >>
      [] c = "U+FF1C" -> << "<" >>
      [] OTHER -> << c >>

RECURSIVE Concat(_, _, _)
\* the concatenation of the strings ss[lo], ..., ss[hi]
Concat(ss, lo, hi) ==
    IF lo > hi THEN << >>
    ELSE IF lo = hi THEN ss[lo]
    ELSE LET mid == (lo + hi) \div 2
         IN  Concat(ss, lo, mid) \o Concat(ss, mid + 1, hi)

\* unicodedata.normalize('NFKD', clean_name)
normalize(s) == Concat([i \in 1..Len(s) |-> NFKD(s[i])], 1, Len(s))

\* the character can be encoded in ASCII
IsAscii(c) == c \notin NonAscii

\* clean_name.encode('ascii', 'ignore').decode('ascii')
encode_ascii_ignore(s) == SelectSeq(s, IsAscii)

\* re.sub(r'_+', '_', clean_name): of a run of underscores the first is kept
CollapseUnderscores(s) ==
    Concat([i \in 1..Len(s) |->
               IF s[i] = "_" /\ i > 1 /\ s[i - 1] = "_" THEN << >> ELSE << s[i] >>],
           1, Len(s))

\* clean_name.strip('_.')
StripUnderscoresDots(s) == rstrip(lstrip(s, {"_", "."}), {"_", "."})

\* the slice s[:n] of Python, n of either sign
SliceTo(s, n) ==
    IF n >= 0 THEN SubSeq(s, 1, Min(n, Len(s)))
    ELSE SubSeq(s, 1, Len(s) + n)

\* the index of the last "." of s, which has one
LastDot(s) ==
    CHOOSE i \in 1..Len(s) : s[i] = "." /\ \A j \in (i + 1)..Len(s) : s[j] # "."

\* the length limit: the part after the last dot is kept whole
LimitLength(s) ==
    IF Len(s) > max_length
    THEN IF \E i \in 1..Len(s) : s[i] = "."
         THEN LET name_part == SubSeq(s, 1, LastDot(s) - 1)
                  ext_part == SubSeq(s, LastDot(s) + 1, Len(s))
                  available_length == max_length - Len(ext_part) - 1
              IN  SliceTo(name_part, available_length) \o << "." >> \o ext_part
         ELSE SliceTo(s, max_length)
    ELSE s

\* sanitize_filename(filename)
sanitize_filename(name) ==
    IF strip(name) = << >> THEN unnamed_file
    ELSE LET cleaned == StripUnderscoresDots(CollapseUnderscores(
                            encode_ascii_ignore(normalize(ReplaceIllegal(strip(name))))))
         IN  IF cleaned = << >> THEN unnamed_file ELSE LimitLength(cleaned)

\* the characters of the filenames tried
FilenameChars == {"a", ".", "_", " ", "<", "U+00E9", "U+FF1C"}

\* the strings of S of length at most n
StringsUpTo(S, n) == UNION {[1..k -> S] : k \in 0..n}

\* the string of n characters c
Repeat(c, n) == [i \in 1..n |-> c]

\* the characters around the run of a long filename
AffixChars == {"b", ".", "_"}

\* every short filename, and the long filenames made of a run of about
\* max_length characters "a" between two short strings
FilenameChoices ==
    StringsUpTo(FilenameChars, MaxNameLen)
    \cup {p \o Repeat("a", n) \o t :
             p \in StringsUpTo(AffixChars, MaxAffixLen),
             t \in StringsUpTo(AffixChars, MaxAffixLen),
             n \in (max_length - 2)..(max_length + 1)}

\* an attachment whose filename is about to be sanitized
InitSanitize ==
    /\ InitClient
    /\ requests_per_minute = 60
    /\ called = "none"
    /\ payload = NoPayload
    /\ message = NoMessage
    /\ attachments = << >>
    /\ query_args = NoArgs
    /\ query = << >>
    /\ filename \in FilenameChoices
    /\ clean_name = << >>
    /\ yaml_data = {}
    /\ config = NoConfig

\* EmailAttachment.safe_filename: sanitize_filename(self.filename)
SanitizeFilename ==
    /\ called = "none"
    /\ called' = "sanitize_filename"
    /\ clean_name' = sanitize_filename(filename)
    /\ UNCHANGED << requests_per_minute, service, semaphore, quota_used,
                    quota_reset_time, now, stats, opsStarted, gateCallVars,
                    searchVars, watchVars, token_refreshed, payload, message,
                    attachments, query_args, query, filename, yaml_data,
                    config >>

NextSanitize == SanitizeFilename

SpecSanitize == InitSanitize /\ [][NextSanitize]_vars


(***************************************************************************)
(* Properties                                                              *)
(***************************************************************************)

\* the gate's concurrency limit C
ConcurrencyLimit == requests_per_minute \div PerSecondDivisor

\* caller p's gate call evaluates its quota check in this step
ChecksQuota(p) ==
    /\ pc[p] = "waiting"
    /\ pc'[p] # "waiting"
    /\ outcome'[p] # "CancelledError"

\* caller p's first request_func invocation of a gate call ends in this step
FirstCallEnds(p) == pc[p] = "inflight" /\ pc'[p] # "inflight"

\* caller p's retried request_func invocation ends in this step
RetryCallEnds(p) == pc[p] = "retry_inflight" /\ pc'[p] # "retry_inflight"

\* C1: in every reachable state _quota_used is at most requests_per_day, for
\* any number of concurrent callers and any mix of quota costs.
C1_QuotaNeverOverspent == quota_used <= DailyLimit

\* C2: a request of cost u whose quota check runs while _quota_used + u >
\* requests_per_day is rejected with GmailQuotaExceededError, request_func is
\* not invoked for it, and _quota_used and the statistics are left unchanged.
C2_RejectionIsLocalAndFree ==
    [][\A p \in Callers :
          (ChecksQuota(p) /\ quota_used + quota_units(p) > DailyLimit)
          => /\ pc'[p] = "done"
             /\ outcome'[p] = "GmailQuotaExceededError"
             /\ attemptCalls'[p] = 0
             /\ response'[p] = NoResponse
             /\ quota_used' = quota_used
             /\ stats' = stats
             /\ semaphore' = semaphore]_vars

C2_Witness ==
    \E p \in Callers :
        /\ pc[p] = "done"
        /\ outcome[p] = "GmailQuotaExceededError"
        /\ attemptCalls[p] = 0
        /\ quota_used + quota_units(p) > DailyLimit
        /\ stats.requests_made = 1
        /\ stats.quota_units_used = quota_used

C4_ResetBeforeBudgetCheck ==
    [][\A p \in Callers :
          (ChecksQuota(p) /\ now >= quota_reset_time)
          => /\ quota_reset_time' = now + Day
             /\ quota_used' = 0
             /\ (pc'[p] = "inflight") = (quota_units(p) <= DailyLimit)]_vars

\* C5: quota exhaustion is never permanent: when the budget is used up and
\* the clock has passed _quota_reset_time, the next request whose cost is at
\* most the daily limit is admitted and sent.
C5_ExhaustionEndsAtReset ==
    [][\A p \in Callers :
          (/\ ChecksQuota(p)
           /\ quota_used >= DailyLimit
           /\ now >= quota_reset_time
           /\ quota_units(p) <= DailyLimit)
          => pc'[p] = "inflight"]_vars

\* C6: a quota rejection reaches the caller of every public data operation
\* as GmailQuotaExceededError and an unresolved authorization failure as
\* GmailAuthenticationError.
C6_ErrorKindReachesCaller ==
    \A p \in Callers :
        (/\ pc[p] = "done"
         /\ outcome[p] \in {"GmailQuotaExceededError", "GmailAuthenticationError"})
        => surfaced[p] = outcome[p]

\* C7: an HTTP 401 leads to exactly one authenticate() and, if that succeeds,
\* exactly one retry of request_func; a failed re-authentication or a failed
\* retry ends the operation with GmailAuthenticationError, and neither the
\* gate nor the retrier invokes request_func again.
C7_OneReauthOneRetry ==
    [][\A p \in Callers :
          /\ (FirstCallEnds(p) /\ Classify(response'[p]) = "reauth"
              /\ response'[p].kind = "HttpError")
             => /\ reauths'[p] = 1
                /\ \/ pc'[p] = "retry_inflight" /\ attemptCalls'[p] = 2
                   \/ /\ pc'[p] = "done"
                      /\ outcome'[p] = "GmailAuthenticationError"
                      /\ attemptCalls'[p] = 1
          /\ RetryCallEnds(p)
             => /\ pc'[p] = "done"
                /\ reauths'[p] = 1
                /\ attemptCalls'[p] = 2
                /\ response'[p].kind # "result"
                      => outcome'[p] = "GmailAuthenticationError"
          /\ (pc[p] = "done" /\ outcome[p] = "GmailAuthenticationError")
             => \/ UNCHANGED << pc[p], attemptCalls[p], reauths[p], tries[p] >>
                \/ attemptCalls'[p] = 0 /\ tries'[p] <= 1]_vars

C7_Witness ==
    \E p \in Callers :
        /\ pc[p] = "done"
        /\ outcome[p] = "GmailAuthenticationError"
        /\ response[p] = Response("HttpError", 401, "", "absent")
        /\ attemptCalls[p] = 2
        /\ reauths[p] = 1
        /\ tries[p] = 2

\* C8: a failure that is neither a rate limit, nor a 403 quota-exceeded, nor
\* a 401 (another HTTP error status or an exception of request_func) is
\* retried by the retrier: after a first attempt that fails so, the retrier
\* backs off for a second attempt.
C8_OtherFailuresAreRetried ==
    [][\A p \in Callers :
          (/\ FirstCallEnds(p)
           /\ tries[p] = 1
           /\ \/ response'[p].kind = "Exception"
              \/ /\ response'[p].kind = "HttpError"
                 /\ Classify(response'[p]) = "GmailError")
          => pc'[p] = "backoff"]_vars

\* C9: after a local quota rejection or an HTTP 403 with reason quotaExceeded
\* the operation ends with GmailQuotaExceededError and is not retried.
C9_QuotaExceededIsFinal ==
    [][\A p \in Callers :
          /\ (ChecksQuota(p) /\ pc'[p] = "done")
             => outcome'[p] = "GmailQuotaExceededError"
          /\ ((FirstCallEnds(p) \/ RetryCallEnds(p))
              /\ response'[p] = Response("HttpError", 403, "quotaExceeded", "absent"))
             => /\ pc'[p] = "done"
                /\ outcome'[p] = "GmailQuotaExceededError"]_vars

\* C10: the retrier runs the gate call at most max_tries = 5 times; when the
\* 5th attempt fails with a rate limit no further attempt is made and that
\* GmailRateLimitError, with its retry_after, is what the retrier raises.
C10_AtMostFiveAttempts ==
    [][\A p \in Callers :
          /\ tries'[p] <= max_tries
          /\ (/\ FirstCallEnds(p)
              /\ tries[p] = max_tries
              /\ response'[p].kind = "HttpError"
              /\ Classify(response'[p]) = "GmailRateLimitError")
             => /\ pc'[p] = "done"
                /\ tries'[p] = max_tries
                /\ outcome'[p] = "GmailRateLimitError"
                /\ retry_after'[p] = ParseRetryAfter(response'[p].header)]_vars

C10_Witness ==
    \E p \in Callers :
        /\ pc[p] = "done"
        /\ tries[p] = max_tries
        /\ outcome[p] = "GmailRateLimitError"
        /\ response[p] = Response("HttpError", 429, "", "2")
        /\ retry_after[p] = 2
        /\ stats.rate_limit_hits = max_tries

\* caller p is inside a decorated gate call
InCall(p) == pc[p] \notin {"idle", "done"}

\* caller p's gate call returns a response in this step
CallSucceeds(p) == (FirstCallEnds(p) \/ RetryCallEnds(p)) /\ outcome'[p] = "ok"

\* C11: while the retrier sleeps after a GmailRateLimitError carrying
\* retry_after = r, the delay it sleeps before the next attempt is at least r.
C11_DelayHonorsRetryAfter ==
    \A p \in Callers : pc[p] = "backoff" => delay[p] >= retry_after[p]

\* C12: a call that received k rate-limit responses in a row (1 <= k <= 4)
\* and then a response returns that response after exactly k + 1 invocations
\* of request_func, and every step of the call adds to rate_limit_hits exactly
\* what it adds to the call's count of rate-limit responses, k in all.
C12_SuccessAfterRateLimits ==
    [][\A p \in Callers :
          /\ InCall(p)
             => stats'.rate_limit_hits - stats.rate_limit_hits
                    = rateLimited'[p] - rateLimited[p]
          /\ \A k \in 1..(max_tries - 1) :
                (/\ FirstCallEnds(p)
                 /\ tries[p] = k + 1
                 /\ response'[p].kind = "result")
                => /\ pc'[p] = "done"
                   /\ outcome'[p] = "ok"
                   /\ surfaced'[p] = "ok"
                   /\ tries'[p] = k + 1
                   /\ upstreamCalls'[p] = k + 1
                   /\ rateLimited'[p] = k]_vars

C12_Witness ==
    \E p \in Callers :
        /\ pc[p] = "done"
        /\ outcome[p] = "ok"
        /\ tries[p] = 4
        /\ upstreamCalls[p] = 4
        /\ rateLimited[p] = 3
        /\ stats.rate_limit_hits = 3
        /\ stats.requests_made = 1

\* C13: every gate call that returns a response records one request made
\* and quota_units consumed, in the statistics and in _quota_used (which the
\* daily reset may then set to 0), also when the response is that of the
\* retry after a re-authentication.
C13_SuccessIsRecorded ==
    [][\A p \in Callers :
          CallSucceeds(p)
          => /\ stats'.requests_made = stats.requests_made + 1
             /\ stats'.quota_units_used = stats.quota_units_used + quota_units(p)
             /\ \/ quota_used' = quota_used + quota_units(p)
                \/ now >= quota_reset_time /\ quota_used' = 0]_vars

\* C14: a data operation (search, details, attachments, download, watch)
\* started while the client has no service fails at once with the GmailError
\* "Client not authenticated", invokes request_func not at all, and leaves
\* the quota counter, the statistics and the semaphore as they were.
C14_UnauthenticatedFailsFast ==
    [][(~service /\ opsStarted' # opsStarted)
          => /\ ~service'
             /\ stats' = stats
             /\ quota_used' = quota_used
             /\ quota_reset_time' = quota_reset_time
             /\ semaphore' = semaphore
             /\ \A p \in Callers : ~InCall(p)' /\ upstreamCalls'[p] = 0
             /\ ~GeneratorRunning'
             /\ \/ /\ pc'[Searcher] = "done"
                   /\ outcome'[Searcher] = "NotAuthenticated"
                   /\ surfaced'[Searcher] = "GmailError"
                   /\ UNCHANGED << searchVars, watchVars >>
                \/ /\ spc' = "raised"
                   /\ search_raised' = "GmailError"
                   /\ yielded' = << >>
                   /\ UNCHANGED watchVars
                \/ /\ wpc' = "ended"
                   /\ watch_raised' = "GmailError"
                   /\ emitted' = << >>
                   /\ UNCHANGED searchVars]_vars

C14_Witness ==
    /\ ~service
    /\ wpc = "ended"
    /\ watch_raised = "GmailError"
    /\ pc[Searcher] = "done"
    /\ op[Searcher] = "download"
    /\ outcome[Searcher] = "NotAuthenticated"
    /\ opsStarted = 2
    /\ stats.requests_made = 0
    /\ quota_used = 0

\* C15: a search called with max_results = m (any m >= 0) yields at most m
\* IDs, asks for at most min(500, m - yielded so far) results in each page
\* request, and has no page request under way once m IDs were yielded.
C15_SearchHonorsMaxResults ==
    (spc # "idle" /\ max_results # None)
    => /\ Len(yielded) <= max_results
       /\ spc = "requesting"
          => /\ Len(yielded) < max_results
             /\ maxResults <= Min(PageLimit, max_results - Len(yielded))

\* C16: every search that has started eventually ends, by returning or by
\* raising.
C16_SearchEventuallyEnds ==
    (spc = "requesting") ~> (spc \in {"returned", "raised"})

\* C17: a gate call that returns a response while the daily window is not
\* over adds the fixed cost of its operation to _quota_used: 1 for a search
\* page, 1 for details in metadata mode and 5 in full mode, 5 for
\* attachments, 10 for a download.
C17_OperationsChargeFixedCost ==
    [][\A p \in Callers :
          (CallSucceeds(p) /\ now < quota_reset_time)
          => quota_used' - quota_used =
                CASE op[p] = "search" -> 1
                  [] op[p] = "details_metadata" -> 1
                  [] op[p] = "details_full" -> 5
                  [] op[p] = "attachments" -> 5
                  [] op[p] = "download" -> 10]_vars

\* C18: within one watch session no message ID is yielded twice.
C18_NoIdEmittedTwice ==
    \A i, j \in 1..Len(emitted) : i # j => emitted[i] # emitted[j]

C18_Witness ==
    /\ wpc = "sleeping"
    /\ polls = 2
    /\ spc = "returned"
    /\ emitted = << <<2>> >>
    /\ yielded = << <<2>>, <<1>> >>
    /\ seen_message_ids = { <<1>>, <<2>> }

\* C19: during a watch session every step leaves seen_message_ids a superset
\* of what it was, adds to it only IDs the current search yielded, and a
\* poll cycle whose search raised leaves it unchanged.
C19_SeenOnlyGrows ==
    [][(wpc \notin {"idle", "ended"})
          => /\ seen_message_ids \subseteq seen_message_ids'
             /\ seen_message_ids' \subseteq seen_message_ids \cup Range(yielded)
             /\ (wpc = "polling" /\ spc = "raised")
                => seen_message_ids' = seen_message_ids]_vars

C19_Witness ==
    /\ wpc = "error_sleep"
    /\ polls = 2
    /\ yielded = << <<1, 0>> >>
    /\ seen_message_ids = { <<1>>, <<2>> }
    /\ emitted = << <<2>> >>

\* s is in strictly ascending lexicographic order
IsAscending(s) == \A i, j \in 1..Len(s) : i < j => LexLess(s[i], s[j])

\* C20: the IDs a poll newly discovered (its result minus the seen set) are
\* queued in ascending lexicographic order, whatever order the search
\* yielded them in, and are yielded from the head of that queue.
C20_NewIdsInLexicographicOrder ==
    [][/\ (wpc = "polling" /\ wpc' = "yielding")
          => /\ Range(new_message_ids') = Range(yielded) \ seen_message_ids
             /\ Len(new_message_ids') = Cardinality(Range(new_message_ids'))
             /\ IsAscending(new_message_ids')
       /\ (wpc = "yielding" /\ emitted' # emitted)
          => /\ emitted' = Append(emitted, Head(new_message_ids))
             /\ new_message_ids' = Tail(new_message_ids)
       /\ (wpc = "yielding" /\ wpc' = "suspended")
          => IsAscending(<< emitted'[Len(emitted')] >> \o new_message_ids')]_vars

C20_Witness ==
    /\ seen_message_ids = { <<1>>, <<1, 0>>, <<2>> }
    /\ yielded = << <<2>>, <<1, 0>> >>
    /\ emitted = << <<1, 0>>, <<2>> >>
    /\ polls = 1

\* C21: an Exception raised by the search of a poll cycle does not end the
\* watcher: the step that handles it reaches the consumer with nothing,
\* leaves seen_message_ids as the cycle found it and goes to the sleep of the
\* except clause; that sleep ends, unless the watcher is cancelled, in the
\* sleep at the head of the loop, from which the next poll can start.
C21_PollErrorKeepsWatching ==
    /\ [](wpc = "sleeping" /\ polls < MaxPolls => ENABLED Wake)
    /\ [][/\ (wpc = "polling" /\ wpc' = "polling")
             => seen_message_ids' = seen_message_ids
          /\ (/\ wpc = "polling" /\ wpc' # "polling"
              /\ spc = "raised" /\ search_raised # "CancelledError")
             => /\ wpc' = "error_sleep"
                /\ watch_raised' = "none"
                /\ seen_message_ids' = seen_message_ids
                /\ emitted' = emitted
          /\ (wpc = "error_sleep" /\ wpc' # "error_sleep")
             => \/ wpc' = "sleeping" /\ watch_raised' = "none"
                \/ wpc' = "ended" /\ watch_raised' = "CancelledError"]_vars

C21_Witness ==
    /\ wpc = "error_sleep"
    /\ polls = 1
    /\ search_raised = "GmailQuotaExceededError"
    /\ seen_message_ids = { <<1>>, <<2>> }
    /\ watch_raised = "none"

\* C22: a step that ends a running watch session starts no poll, and every ID
\* that was added to seen_message_ids in the current cycle has been yielded:
\* none is still waiting in new_message_ids.
C22_CancelLeavesNoUndeliveredId ==
    [][(wpc \in {"sleeping", "polling", "suspended", "error_sleep"}
           /\ wpc' = "ended")
          => /\ polls' = polls
             /\ \A id \in Range(new_message_ids') :
                   id \notin seen_message_ids']_vars

\* C23: whatever requests_per_minute the configuration accepted, the gate
\* has at least one permit, and with no call in flight a permit is free.
C23_GateHasAPermit ==
    /\ ConcurrencyLimit >= 1
    /\ InFlight = 0 => CanAcquire

\* C24: a request_func that runs as the retry of the 401 branch runs after
\* an authenticate() that obtained a new token.
C24_RetryUsesRefreshedCredential ==
    \A p \in Callers : pc[p] = "retry_inflight" => token_refreshed[p]

RECURSIVE PositionsOf(_)
\* the positions of the parts of a payload: the root is << >>, the i-th part
\* of the part at position q is q \o << i >>
PositionsOf(pl) ==
    {<< >>} \cup UNION {{<< i >> \o q : q \in PositionsOf(pl.parts[i])} :
                           i \in 1..Len(pl.parts)}

RECURSIVE PartAt(_, _)
\* the part of the payload at position q
PartAt(pl, q) == IF q = << >> THEN pl ELSE PartAt(pl.parts[Head(q)], Tail(q))

\* the positions of the parts that carry both an attachmentId and a filename
AttachmentPositions(pl) ==
    {q \in PositionsOf(pl) :
        IsSet(PartAt(pl, q).attachmentId) /\ IsSet(PartAt(pl, q).filename)}

C26_CountMatchesAttachments ==
    called = "get_message_attachments"
    => /\ message.attachment_count = Len(attachments)
       /\ message.has_attachments <=> message.attachment_count > 0

C26_Witness ==
    /\ called = "get_message_attachments"
    /\ message.has_attachments
    /\ message.attachment_count = 2
    /\ Len(attachments) = 2
    /\ Len(payload.parts) = 1

\* s begins with prefix
StartsWith(s, prefix) ==
    Len(s) >= Len(prefix) /\ SubSeq(s, 1, Len(prefix)) = prefix

\* the place in the clause order of the clause a word of the query belongs
\* to: 1 senders, 2 after-date, 3 before-date, 4 attachment token,
\* 5 extensions, 6 include keywords, 7 exclude keywords; 0 for the OR between
\* the members of a group and 8 for any other word
ClauseKind(w) ==
    CASE w = << "O", "R" >> -> 0
      [] StartsWith(w, << "f", "r", "o", "m", ":" >>)
         \/ StartsWith(w, << "(", "f", "r", "o", "m", ":" >>) -> 1
      [] StartsWith(w, << "a", "f", "t", "e", "r", ":" >>) -> 2
      [] StartsWith(w, << "b", "e", "f", "o", "r", "e", ":" >>) -> 3
      [] w = << "h", "a", "s", ":", "a", "t", "t", "a", "c", "h", "m", "e",
            "n", "t" >> -> 4
      [] StartsWith(w, << "f", "i", "l", "e", "n", "a", "m", "e", ":" >>)
         \/ StartsWith(w, << "(", "f", "i", "l", "e", "n", "a", "m", "e", ":" >>) -> 5
      [] StartsWith(w, << "s", "u", "b", "j", "e", "c", "t", ":" >>) -> 6
      [] StartsWith(w, << "-" >>) -> 7
      [] OTHER -> 8

\* the words of the query string that belong to clauses of place k
WordsOfKind(k) == SelectSeq(Split(query, " "), LAMBDA w : ClauseKind(w) = k)

\* C28: the query is a function of the arguments alone; cut at its spaces it
\* has no empty word (clauses are separated by exactly one space and the
\* string neither begins nor ends with one); its clauses stand in the order
\* senders, after-date, before-date, attachment token, extensions, include
\* keywords, exclude keywords; an absent filter contributes no clause and a
\* present one contributes its own: one word for each extension, each include
\* keyword, each exclude keyword, and the attachment token iff has_attachment.
C28_ClausesInFixedOrder ==
    called = "build_search_query"
    => LET words == Split(query, " ")
           kind == [i \in 1..Len(words) |-> ClauseKind(words[i])]
           Count(k) == Cardinality({i \in 1..Len(words) : kind[i] = k})
       IN  /\ query = build_search_query(query_args)
           /\ query # << >> => \A i \in 1..Len(words) : words[i] # << >>
           /\ query # << >> => \A i \in 1..Len(words) : kind[i] \in 0..7
           /\ \A i, j \in 1..Len(words) :
                 (i < j /\ kind[i] # 0 /\ kind[j] # 0) => kind[i] <= kind[j]
           /\ \A i \in 1..Len(words) :
                 kind[i] = 0
                 => /\ 1 < i /\ i < Len(words)
                    /\ kind[i - 1] = kind[i + 1]
                    /\ kind[i - 1] \in {1, 5}
           /\ query_args.senders = << >> => Count(1) = 0
           /\ Count(2) <= (IF query_args.after_date = << >> THEN 0 ELSE 1)
           /\ Count(3) <= (IF query_args.before_date = << >> THEN 0 ELSE 1)
           /\ Count(4) = (IF query_args.has_attachment THEN 1 ELSE 0)
           /\ Count(5) = Len(query_args.extensions)
           /\ Count(6) = Len(query_args.subject_keywords)
           /\ Count(7) = Len(query_args.exclude_keywords)

C28_Witness ==
    /\ called = "build_search_query"
    /\ query = << "(", "f", "r", "o", "m", ":", "a", "@", "x", ".", "c", "o",
                "m", " ", "O", "R", " ", "f", "r", "o", "m", ":", "b", "@",
                "x", ".", "c", "o", "m", ")", " ", "a", "f", "t", "e", "r",
                ":", "2", "0", "2", "4", "/", "0", "1", "/", "0", "5", " ",
                "b", "e", "f", "o", "r", "e", ":", "2", "0", "2", "4", "/",
                "0", "2", "/", "2", "9", " ", "h", "a", "s", ":", "a", "t",
                "t", "a", "c", "h", "m", "e", "n", "t", " ", "f", "i", "l",
                "e", "n", "a", "m", "e", ":", "c", "s", "v", " ", "s", "u",
                "b", "j", "e", "c", "t", ":", "\"", "i", "n", "v", "o", "i",
                "c", "e", "\"", " ", "-", "s", "p", "a", "m" >>

\* the arguments of the example: two senders and has_attachment
ExampleArgs ==
    [NoArgs EXCEPT !.senders = << << "a", "@", "x", ".", "c", "o", "m" >>,
                                 << "b", "@", "x", ".", "c", "o", "m" >> >>,
                   !.has_attachment = TRUE]

\* C29: with one valid sender the senders clause is from:<addr>; with two or
\* more it is (from:a OR from:b ...) over the valid senders in input order;
\* the example arguments give (from:a@x.com OR from:b@x.com) has:attachment.
C29_SenderClauseShape ==
    called = "build_search_query"
    => LET valid == valid_senders(query_args.senders)
           n == Len(valid)
           words == Split(query, " ")
           from(i) == << "f", "r", "o", "m", ":" >> \o valid[i]
       IN  /\ Len(WordsOfKind(1)) = n
           /\ n = 1 => words[1] = from(1)
           /\ n >= 2
              => /\ words[1] = << "(" >> \o from(1)
                 /\ \A i \in 2..(n - 1) : words[2 * i - 1] = from(i)
                 /\ words[2 * n - 1] = from(n) \o << ")" >>
                 /\ \A i \in 1..(n - 1) : words[2 * i] = << "O", "R" >>
           /\ query_args = ExampleArgs
              => query = << "(", "f", "r", "o", "m", ":", "a", "@", "x", ".", "c", "o",
                          "m", " ", "O", "R", " ", "f", "r", "o", "m", ":", "b", "@",
                          "x", ".", "c", "o", "m", ")", " ", "h", "a", "s", ":", "a",
                          "t", "t", "a", "c", "h", "m", "e", "n", "t" >>

C29_Witness ==
    /\ called = "build_search_query"
    /\ query_args = ExampleArgs
    /\ Len(WordsOfKind(1)) = 2
    /\ Len(query) = 45

\* the sender is rejected by the builder
MalformedSender(sender) == ~is_valid_email(extract_email_address(sender))

\* the arguments without their malformed items
WithoutMalformed(args) ==
    [args EXCEPT
        !.senders = SelectSeq(@, LAMBDA x : ~MalformedSender(x)),
        !.after_date = IF parse_date(@) = NoDate THEN << >> ELSE @,
        !.before_date = IF parse_date(@) = NoDate THEN << >> ELSE @]

\* C30: the builder returns, for arguments with malformed senders or dates,
\* the query it returns for the same arguments without those items; when
\* every sender is malformed the query has no senders clause.
C30_MalformedItemsAreDropped ==
    called = "build_search_query"
    => /\ query = build_search_query(WithoutMalformed(query_args))
       /\ (\A i \in 1..Len(query_args.senders) :
              MalformedSender(query_args.senders[i]))
          => WordsOfKind(1) = << >>

C30_Witness ==
    /\ called = "build_search_query"
    /\ query_args.senders = << << "a", "@", "x" >>,
                               << "a", "@", "x", ".", "c", "o", "m" >> >>
    /\ query_args.after_date = << "2", "0", "2", "4", "-", "1", "3", "-", "0", "1" >>
    /\ query_args.before_date = << "2", "9", ".", "0", "2", ".", "2", "0", "2", "3" >>
    /\ query = << "f", "r", "o", "m", ":", "a", "@", "x", ".", "c", "o", "m",
                " ", "h", "a", "s", ":", "a", "t", "t", "a", "c", "h", "m",
                "e", "n", "t" >>

\* C27: the seconds the retrier sleeps after the k-th attempt of a call
\* failed, k counted from one, are not negative and are at most
\* min(max_time, 2^(k-1)), the wait values being 1, 2, 4, 8.
C27_DelayWithinExponentialBound ==
    \A p \in Callers :
        pc[p] = "backoff"
        => /\ delay[p] >= 0
           /\ delay[p] <= Min(max_time, 2 ^ (tries[p] - 1))

C27_Witness ==
    /\ pc[1] = "backoff"
    /\ tries[1] = 4
    /\ delay[1] = 8

\* caller p's upstream attempt ends in this step without a response: its
\* gate call raises, to the retrier or to the caller
AttemptFails(p) ==
    /\ FirstCallEnds(p) \/ RetryCallEnds(p)
    /\ pc'[p] \in {"backoff", "done"}
    /\ outcome'[p] # "ok"

\* the attempt that ends in this step is answered by a rate-limit response
\* in the first invocation of request_func
RateLimitedAttempt(p) ==
    /\ pc[p] = "inflight"
    /\ Classify(response'[p]) \in {"GmailRateLimitError", "ValueError"}

C35_NoPermitLeaked ==
    /\ semaphore + InFlight = ConcurrencyLimit
    /\ (\A p \in Callers : ~InCall(p)) => semaphore = ConcurrencyLimit

C35_Witness ==
    /\ ConcurrencyLimit = 1
    /\ semaphore = 1
    /\ \E p, q \in Callers :
          /\ pc[p] = "done"
          /\ outcome[p] = "CancelledError"
          /\ attemptCalls[p] = 2
          /\ pc[q] = "done"
          /\ outcome[q] = "GmailAuthenticationError"
          /\ reauths[q] = 1
          /\ attemptCalls[q] = 1

\* C36: an operation in the retrier's sleep between two attempts holds no
\* permit: the permit of the failed attempt is released in the step that
\* starts the sleep, and the free permits and those of the calls in flight
\* add up to C while it sleeps.  Every attempt, the first and each retry,
\* starts request_func only from the wait for the semaphore, with a free
\* permit that it takes and with the quota check passed; a retry whose quota
\* check fails is rejected without calling request_func.
C36_BackoffHoldsNoPermit ==
    /\ [](\A p \in Callers :
             pc[p] = "backoff" => semaphore + InFlight = ConcurrencyLimit)
    /\ [][\A p \in Callers :
             /\ (pc[p] # "backoff" /\ pc'[p] = "backoff")
                => /\ pc[p] \in {"inflight", "retry_inflight"}
                   /\ semaphore' = semaphore + 1
             /\ (pc[p] = "backoff" /\ pc'[p] # "backoff")
                => /\ pc'[p] \in {"waiting", "done"}
                   /\ semaphore' = semaphore
                   /\ upstreamCalls'[p] = upstreamCalls[p]
             /\ (pc[p] # "inflight" /\ pc'[p] = "inflight")
                => /\ pc[p] = "waiting"
                   /\ semaphore > 0
                   /\ semaphore' = semaphore - 1
                   /\ quota_used + quota_units(p) <= DailyLimit
             /\ (ChecksQuota(p) /\ tries[p] > 1
                    /\ quota_used + quota_units(p) > DailyLimit)
                => /\ outcome'[p] = "GmailQuotaExceededError"
                   /\ upstreamCalls'[p] = upstreamCalls[p]
                   /\ semaphore' = semaphore]_vars

C36_Witness ==
    /\ ConcurrencyLimit = 1
    /\ semaphore = 0
    /\ \E p, q \in Callers :
          /\ pc[p] = "backoff"
          /\ tries[p] = 1
          /\ pc[q] = "inflight"
          /\ tries[q] = 1

\* what a gate call raises when its first request_func invocation fails with
\* the response r, a 401 apart
FirstAttemptError(r) == IF r.kind = "Exception" THEN "Exception" ELSE Classify(r)

\* C37: GmailAuthenticationError comes only from an authorization failure: a
\* gate call ends with it only after a 401 whose re-authentication failed or
\* whose retry was answered 401 again; a retry that fails with a rate limit
\* or another error that is not a 401 raises what the same failure raises in
\* a first attempt.
C37_AuthErrorOnlyForAuthFailure ==
    [][\A p \in Callers :
          /\ (pc[p] # "done" /\ pc'[p] = "done"
                 /\ outcome'[p] = "GmailAuthenticationError")
             => /\ reauths'[p] = 1
                /\ response'[p].status = 401
          /\ (RetryCallEnds(p) /\ response'[p] \in ErrorResponses
                 /\ response'[p].status # 401)
             => \/ outcome'[p] = FirstAttemptError(response'[p])
                \/ /\ pc'[p] = "backoff"
                   /\ Retryable(FirstAttemptError(response'[p]))]_vars

\* C38: when the baseline search of a watch session raises an exception, the
\* authentication check passed, the session ends in the next step of the
\* generator, having emitted no ID and started no poll, and the consumer
\* sees the generator finish without an error.
C38_BaselineFailureEndsSilently ==
    /\ [][(wpc = "baseline" /\ spc = "raised"
              /\ search_raised # "CancelledError")
          => /\ wpc' = "ended"
             /\ emitted' = << >>
             /\ polls' = 0
             /\ watch_raised' = "none"]_vars
    /\ [](wpc = "ended" /\ polls = 0 /\ search_raised \notin {"none", "CancelledError"}
             => emitted = << >> /\ watch_raised = "none")

C38_Witness ==
    /\ wpc = "ended"
    /\ spc = "raised"
    /\ search_raised = "GmailQuotaExceededError"
    /\ Len(yielded) = 1
    /\ pages = 2
    /\ polls = 0
    /\ emitted = << >>
    /\ watch_raised = "none"

\* C39: the ID a watch session emits in a step is in the result of the poll
\* of the current cycle and in none of the results the baseline search and
\* the successful polls of earlier cycles returned; a poll whose result
\* leaves the seen set as it was is followed by the sleep, not by a yield,
\* and nothing is emitted but in a yield of a cycle.
C39_EmittedIdsAreNew ==
    [][/\ emitted' # emitted /\ emitted' # << >>
          => /\ wpc = "yielding"
             /\ polls >= 1
             /\ emitted' = Append(emitted, Head(new_message_ids))
             /\ Head(new_message_ids) \in current_message_ids
             /\ Head(new_message_ids) \notin earlier_results
       /\ (wpc = "polling" /\ wpc' # "polling" /\ seen_message_ids' = seen_message_ids)
          => /\ wpc' \in {"sleeping", "error_sleep", "ended"}
             /\ new_message_ids' = << >>
             /\ emitted' = emitted]_vars

C39_Witness ==
    /\ wpc = "suspended"
    /\ polls = 2
    /\ earlier_results = {<< 1 >>, << 2 >>}
    /\ current_message_ids = {<< 1 >>, << 1, 0 >>}
    /\ emitted = << << 2 >>, << 1, 0 >> >>
    /\ seen_message_ids = MessageIds

\* C33: _apply_yaml_to_config changes exactly the settings whose keys are in
\* the YAML data, every other setting keeping its value, and leaves the whole
\* configuration unchanged for empty YAML data.
C33_YamlChangesExactlyPresentKeys ==
    called = "_apply_yaml_to_config"
    => /\ \A x \in Settings : (config[x] # AppConfig[x]) <=> (x \in yaml_data)
       /\ yaml_data = {} => config = AppConfig

\* C31: the result of sanitize_filename contains none of the characters
\* < > : " / \ | ? *, whatever the filename.
C31_NoIllegalCharacter ==
    called = "sanitize_filename"
    => \A i \in 1..Len(clean_name) : clean_name[i] \notin illegal_chars

\* the part of the string s after its last ".", s having one
Extension(s) == SubSeq(s, LastDot(s) + 1, Len(s))

\* the string s ends with the string e
EndsWith(s, e) ==
    Len(s) >= Len(e) /\ SubSeq(s, Len(s) - Len(e) + 1, Len(s)) = e

\* C32: the result of sanitize_filename is not empty and has at most 200
\* characters; it starts and ends with neither "." nor "_"; and the result
\* for a filename of ASCII characters that is longer than 200 characters and
\* has an extension ends with "." and that extension.
C32_LengthAndEnds ==
    called = "sanitize_filename"
    => /\ clean_name # << >>
       /\ Len(clean_name) <= max_length
       /\ clean_name[1] \notin {".", "_"}
       /\ clean_name[Len(clean_name)] \notin {".", "_"}
       /\ (/\ Len(filename) > max_length
           /\ \A i \in 1..Len(filename) : filename[i] \in {"a", "b", "."}
           /\ \E i \in 1..Len(filename) : filename[i] = "."
           /\ filename[1] # "." /\ filename[Len(filename)] # ".")
          => EndsWith(clean_name, << "." >> \o Extension(filename))

====
